---- MODULE Spec2Model ----
(***************************************************************************)
(* A model of bt/core.py: the tree of strategies and securities, its       *)
(* stale-propagation update protocol, capital accounting, the index price  *)
(* and the paper-trading twin of nested strategies.                        *)
(*                                                                         *)
(* Numbers.  The code computes in doubles (cy.double).  The model computes *)
(* in exact rationals <<n, d>> (d > 0, lowest terms) extended with NaN,    *)
(* written <<0, 0>>, which every arithmetic operation propagates and which *)
(* every comparison of the code treats as the code does (NaN == x is       *)
(* false, NaN != x is true, NaN < x is false).  Rounding error of doubles  *)
(* is not modelled.  A division by zero raises ZeroDivisionError, as it    *)
(* does for the declared cy.double fields and for Python floats.           *)
(***************************************************************************)
EXTENDS Integers, Sequences, FiniteSets, TLC

(***************************************************************************)
(* Rational arithmetic with NaN                                            *)
(***************************************************************************)
NaN == <<0, 0>>

IsNaN(a) == a[2] = 0

Abs(i) == IF i < 0 THEN -i ELSE i

RECURSIVE Gcd(_, _)
Gcd(i, j) == IF j = 0 THEN i ELSE Gcd(j, i % j)

Norm(n, d) ==
    LET g == Gcd(Abs(n), Abs(d))
        s == IF d < 0 THEN -1 ELSE 1
    IN  IF d = 0 THEN NaN ELSE <<s * (n \div g), s * (d \div g)>>

R(i) == <<i, 1>>

Zero == R(0)

RNeg(a) == IF IsNaN(a) THEN NaN ELSE <<-a[1], a[2]>>

RAdd(a, b) ==
    IF IsNaN(a) \/ IsNaN(b) THEN NaN
    ELSE LET g == Gcd(a[2], b[2])
         IN  Norm(a[1] * (b[2] \div g) + b[1] * (a[2] \div g), (a[2] \div g) * b[2])

RSub(a, b) == RAdd(a, RNeg(b))

RMul(a, b) ==
    IF IsNaN(a) \/ IsNaN(b) THEN NaN
    ELSE LET g1 == Gcd(Abs(a[1]), b[2])
             g2 == Gcd(Abs(b[1]), a[2])
         IN  Norm((a[1] \div g1) * (b[1] \div g2), (a[2] \div g2) * (b[2] \div g1))

\* the code's a / b for b that is neither zero nor NaN-free checked by the caller
RDiv(a, b) ==
    IF IsNaN(a) \/ IsNaN(b) THEN NaN
    ELSE RMul(a, IF b[1] < 0 THEN <<-b[2], -b[1]>> ELSE <<b[2], b[1]>>)

\* the code's ==, != and < on doubles
PyEq(a, b) == ~IsNaN(a) /\ ~IsNaN(b) /\ a = b

PyNe(a, b) == ~PyEq(a, b)

PyLt(a, b) == ~IsNaN(a) /\ ~IsNaN(b) /\ a[1] * b[2] < b[1] * a[2]

PyGt(a, b) == PyLt(b, a)

\* math.floor and math.ceil (Python 2: a float result, NaN for NaN)
Floor(a) == IF IsNaN(a) THEN NaN ELSE R(a[1] \div a[2])

Ceil(a) == IF IsNaN(a) THEN NaN ELSE R(-((-a[1]) \div a[2]))

RAbs(a) == IF IsNaN(a) THEN NaN ELSE <<Abs(a[1]), a[2]>>

\* Python's max(a, b): b if b > a else a
PyMax(a, b) == IF PyGt(b, a) THEN b ELSE a

(***************************************************************************)
(* Bounds and program constants                                            *)
(***************************************************************************)
\* number of dates of the price panel (the universe's date axis is 1..MaxDate)
MaxDate == 2

\* number of calls the driver makes after setup
MaxCalls == 2

\* StrategyBase.setup: self._paper_amount
PaperAmount == 1000000

\* StrategyBase.__init__: self._price, self._last_price
InitialPrice == 100

(***************************************************************************)
(* The objects.  A tree is described by names: the strategies "r" (the top *)
(* of the tree) and "s" (a sub-strategy of "r"), the securities "a" (a     *)
(* child of "r") and "b" (a child of "s").  deepcopy gives every object of *)
(* the tree a copy; the copy of "s" becomes its paper twin.  "q" is a      *)
(* strategy that a driver may construct over "r" once the tree is at work. *)
(***************************************************************************)
Strategies == {"r", "s"}

Securities == {"a", "b"}

Names == Strategies \cup Securities

Copy(x) == CASE x = "r" -> "pr" [] x = "s" -> "ps" [] x = "a" -> "pa" [] x = "b" -> "pb"

Copies == {Copy(x) : x \in Names}

Objects == Names \cup Copies \cup {"q"}

\* the strategy a name belongs under, and the strategies' possible children
Home(x) == CASE x = "a" -> "r" [] x = "b" -> "s" [] x = "s" -> "r" [] x = "r" -> "r"

Dates == 1..MaxDate

\* keys of the time-series buffers; 0 is the value of `now` before the first update
Keys == 0..MaxDate

None == "None"

(***************************************************************************)
(* An object that has not been constructed yet.  The fields are those of   *)
(* Node, StrategyBase and SecurityBase; `sym` is the object's name         *)
(* attribute (a copy keeps the name of its original).                      *)
(***************************************************************************)
Blank ==
    [kind |-> None, sym |-> None, parent |-> None, root |-> None, children |-> <<>>,
     now |-> 0, stale |-> FALSE, price |-> Zero, value |-> Zero, weight |-> Zero,
     issec |-> FALSE, tickers |-> {}, tickersNone |-> TRUE, isSetup |-> FALSE,
     capital |-> Zero, net_flows |-> Zero, last_value |-> Zero, last_price |-> Zero,
     last_fee |-> Zero, paper_trade |-> FALSE, paper |-> None, universe |-> {},
     algo |-> None, comm |-> "default",
     prices |-> [k \in Keys |-> Zero], values |-> [k \in Keys |-> Zero],
     cash |-> [k \in Keys |-> Zero], fees |-> [k \in Keys |-> Zero],
     position |-> Zero, multiplier |-> R(1), last_pos |-> Zero, needupdate |-> FALSE,
     prices_set |-> FALSE, positions_built |-> FALSE]

\* Node._add_child
AddChild(h, p, c) ==
    [h EXCEPT !.n[c].parent = p,
              !.n[c].root = h.n[p].root,
              !.n[p].children = IF \E i \in 1..Len(@) : @[i] = c THEN @ ELSE Append(@, c)]

\* the loop of Node.__init__ over self._childrenv: c.parent = self; c.root = self.root
RECURSIVE AdoptChildren(_, _, _)
AdoptChildren(h, x, kids) ==
    IF kids = <<>> THEN h
    ELSE AdoptChildren([h EXCEPT !.n[Head(kids)].parent = x,
                                 !.n[Head(kids)].root = h.n[x].root],
                       x, Tail(kids))

\* Node.__init__(name, parent, children); children is None (kidsNone) or a list of nodes
NodeInit(h, x, sym, par, kidsNone, kids) ==
    LET rt == IF par = None THEN x ELSE h.n[par].root
        childrenv == IF kidsNone THEN <<>> ELSE kids
        h1 == [h EXCEPT !.n[x] = [Blank EXCEPT
                    !.kind = "node", !.sym = sym,
                    !.tickersNone = kidsNone,
                    !.tickers = IF kidsNone THEN {}
                                ELSE {h.n[kids[i]].sym : i \in {j \in 1..Len(kids) : h.n[kids[j]].issec}},
                    !.parent = IF par = None THEN x ELSE par,
                    !.root = rt]]
        h2 == IF par = None THEN h1 ELSE AddChild(h1, par, x)
        h3 == AdoptChildren([h2 EXCEPT !.n[x].children = childrenv], x, childrenv)
    IN  [h3 EXCEPT !.n[rt].stale = FALSE,
                   !.n[x].now = 0, !.n[x].price = Zero, !.n[x].value = Zero,
                   !.n[x].weight = Zero, !.n[x].issec = FALSE]

\* StrategyBase.__init__(name, children, parent)
StrategyInit(h, x, sym, par, kidsNone, kids) ==
    [NodeInit(h, x, sym, par, kidsNone, kids)
        EXCEPT !.n[x].kind = "strategy",
               !.n[x].capital = Zero, !.n[x].weight = R(1), !.n[x].value = Zero,
               !.n[x].price = R(InitialPrice), !.n[x].net_flows = Zero,
               !.n[x].last_value = Zero, !.n[x].last_price = R(InitialPrice),
               !.n[x].last_fee = Zero, !.n[x].paper_trade = FALSE]

\* SecurityBase.__init__(name, multiplier)
SecurityInit(h, x, sym, mult) ==
    [NodeInit(h, x, sym, None, TRUE, <<>>)
        EXCEPT !.n[x].kind = "security",
               !.n[x].value = Zero, !.n[x].price = Zero, !.n[x].weight = Zero,
               !.n[x].position = Zero, !.n[x].multiplier = R(mult),
               !.n[x].last_pos = Zero, !.n[x].issec = TRUE, !.n[x].needupdate = TRUE]

(***************************************************************************)
(* The program state handed from call to call: h.n maps every object to    *)
(* its fields, h.u is the price panel (security name -> date -> price) and *)
(* h.err is "none" or the exception that is propagating.  Every operation  *)
(* returns its argument unchanged once an exception propagates.            *)
(***************************************************************************)
NoErr == "none"

Raise(h, e) == [h EXCEPT !.err = e]

Ok(h) == h.err = NoErr

IsChild(h, x, name) == \E i \in 1..Len(h.n[x].children) : h.n[h.n[x].children[i]].sym = name

\* self.children[name]
Child(h, x, name) ==
    h.n[x].children[CHOOSE i \in 1..Len(h.n[x].children) : h.n[h.n[x].children[i]].sym = name]

\* the object that stands for a security `name` created under strategy x
NewId(x, name) == IF x \in Copies THEN Copy(name) ELSE name

\* self._prices[date] of a security bound to the panel
PanelPrice(h, sym, date) == h.u[sym][IF date = 0 THEN 1 ELSE date]

\* StrategyBase._dflt_comm_fn(q, p)
DfltCommFn(q, p) == PyMax(R(1), RMul(RAbs(q), <<1, 100>>))

\* a commission function that charges nothing (installed with set_commissions)
ZeroCommFn(q, p) == Zero

\* a commission function that charges a hundredth per share of the quantity it is
\* given (installed with set_commissions)
PerShareCommFn(q, p) == RMul(q, <<1, 100>>)

\* self.parent.commission_fn(q, p)
CommissionFn(fn, q, p) ==
    IF fn = "default" THEN DfltCommFn(q, p)
    ELSE IF fn = "per_share" THEN PerShareCommFn(q, p)
    ELSE ZeroCommFn(q, p)

\* copy.deepcopy: every constructed object of the tree gets a copy whose references
\* point to copies
RemapRef(x) == IF x \in Names THEN Copy(x) ELSE x

RemapSeq(q) == [i \in 1..Len(q) |-> RemapRef(q[i])]

DeepCopy(h) ==
    [h EXCEPT !.n = [o \in Objects |->
        IF o \in Copies /\ \E x \in Names : Copy(x) = o /\ h.n[x].kind # None
        THEN LET x == CHOOSE y \in Names : Copy(y) = o
             IN  [h.n[x] EXCEPT !.parent = RemapRef(@), !.root = RemapRef(@),
                                !.children = RemapSeq(@), !.paper = RemapRef(@)]
        ELSE h.n[o]]]

\* SecurityBase.setup(universe): cols are the columns of the universe handed in
SecuritySetup(h, x, cols) ==
    [h EXCEPT !.n[x].prices_set = (h.n[x].sym \in cols), !.n[x].isSetup = TRUE]

\* an adjustment that takes the fee out of the capital
Credited_NetOfFee(amount, fee) == RSub(amount, fee)

\* self._capital += amount
Credited(amount, fee) == amount

\* if flow: self._net_flows += amount
FlowBooked(amount, flow) == IF flow THEN amount ELSE Zero

\* if update: self.root.stale = True
MarkStale(h, x, update) ==
    IF Ok(h) /\ update THEN [h EXCEPT !.n[h.n[x].root].stale = TRUE] ELSE h

\* StrategyBase.adjust(amount, update, flow, fee)
Adjust(h, x, amount, update, flow, fee) ==
    IF ~Ok(h) THEN h
    ELSE MarkStale([h EXCEPT !.n[x].capital = RAdd(@, Credited(amount, fee)),
                             !.n[x].last_fee = RAdd(@, fee),
                             !.n[x].net_flows = RAdd(@, FlowBooked(amount, flow))],
                   x, update)

RECURSIVE SetupChildren(_, _, _)
RECURSIVE StrategySetup(_, _)

\* the paper twin of StrategyBase.setup: deepcopy(self), detached, set up and funded
PaperTwin(h, x) ==
    LET p == Copy(x)
    IN  [Adjust(StrategySetup([DeepCopy([h EXCEPT !.n[x].paper_trade = TRUE])
                                  EXCEPT !.n[p].parent = p, !.n[p].root = p,
                                         !.n[p].paper_trade = FALSE],
                              p),
                p, R(PaperAmount), TRUE, TRUE, Zero)
            EXCEPT !.n[x].paper = p]

\* StrategyBase.setup(universe) with the full panel, whose columns are the securities:
\* the paper twin of a nested strategy, the filtered universe, the zeroed buffers,
\* then the children
StrategySetup(h, x) ==
    SetupChildren(
        [(IF h.n[x].parent # x THEN PaperTwin(h, x) ELSE h) EXCEPT
            !.n[x].universe = IF h.n[x].tickersNone THEN Securities
                              ELSE Securities \cap h.n[x].tickers,
            !.n[x].prices = [k \in Keys |-> Zero], !.n[x].values = [k \in Keys |-> Zero],
            !.n[x].cash = [k \in Keys |-> Zero], !.n[x].fees = [k \in Keys |-> Zero],
            !.n[x].isSetup = TRUE],
        x, 1)

\* [c.setup(universe) for c in self._childrenv], from the i-th child on
SetupChildren(h, x, i) ==
    IF i > Len(h.n[x].children) THEN h
    ELSE LET c == h.n[x].children[i]
         IN  SetupChildren(IF h.n[c].issec THEN SecuritySetup(h, c, Securities)
                           ELSE StrategySetup(h, c),
                           x, i + 1)

(***************************************************************************)
(* update, the readers, and the operations that trade.  They call one      *)
(* another (a reader runs the root's update, the update of a paper-traded  *)
(* strategy runs its twin's algos, which read and trade).  A loop over the *)
(* children is a recursion on the index i of the child.                    *)
(***************************************************************************)
RECURSIVE StrategyUpdate(_, _, _)
RECURSIVE UpdateChildren(_, _, _, _)
RECURSIVE WeighChildren(_, _, _, _)
RECURSIVE Allocate(_, _, _, _)
RECURSIVE StrategyAllocate(_, _, _, _, _)
RECURSIVE AllocateChildren(_, _, _, _)
RECURSIVE FlattenChildren(_, _, _)
RECURSIVE Close(_, _, _)
RECURSIVE Rebalance(_, _, _, _, _)
RECURSIVE Run(_, _)
RECURSIVE RunChildren(_, _, _)

\* a security that is flagged dormant whatever it holds
Dormant_Always(me) == TRUE

\* if self._weight == 0 and self._position == 0: self._needupdate = False
Dormant(me) == PyEq(me.weight, Zero) /\ PyEq(me.position, Zero)

\* SecurityBase.update(date, data=None)
SecurityUpdate(h, x, date) ==
    IF ~Ok(h) THEN h
    ELSE LET me == h.n[x] IN
         IF date = me.now /\ PyEq(me.last_pos, me.position) THEN h
         ELSE LET prc == IF date # me.now /\ me.prices_set
                         THEN PanelPrice(h, me.sym, date) ELSE me.price
                  val == RMul(RMul(me.position, prc), me.multiplier)
              IN  [h EXCEPT !.n[x].now = date,
                            !.n[x].price = prc,
                            !.n[x].last_pos = me.position,
                            !.n[x].value = val,
                            !.n[x].needupdate = IF Dormant(me) THEN FALSE ELSE @]

\* c.update(date, data) as the update loop dispatches it
Update(h, x, date) ==
    IF h.n[x].issec THEN SecurityUpdate(h, x, date) ELSE StrategyUpdate(h, x, date)

\* a reader that returns the cached field as it is
Sync_Never(h, x) == h

\* the stale check of Node.value, Node.weight, StrategyBase.positions:
\* if self.root.stale: self.root.update(self.root.now, None)
Sync(h, x) ==
    IF ~Ok(h) THEN h
    ELSE LET rt == h.n[x].root
         IN  IF h.n[rt].stale THEN StrategyUpdate(h, rt, h.n[rt].now) ELSE h

\* the stale check of StrategyBase.price, prices, values:
\* if self.root.stale: self.root.update(self.now, None)
SyncPrice(h, x) ==
    IF ~Ok(h) THEN h
    ELSE LET rt == h.n[x].root
         IN  IF h.n[rt].stale THEN StrategyUpdate(h, rt, h.n[x].now) ELSE h

\* the check of SecurityBase.price: if self._needupdate: self.update(self.root.now)
SecSyncPrice(h, x) ==
    IF ~Ok(h) THEN h
    ELSE IF h.n[x].needupdate THEN SecurityUpdate(h, x, h.n[h.n[x].root].now) ELSE h

\* the checks of SecurityBase.values and SecurityBase.positions: the security's own
\* update, then the stale check
SecSync(h, x) == Sync(SecSyncPrice(h, x), x)

\* {x.name: x.positions for x in self.members if isinstance(x, SecurityBase)}: the reads
\* of the securities below x, from the i-th child of x on
RECURSIVE MemberPositions(_, _, _)
MemberPositions(h, x, i) ==
    IF ~Ok(h) \/ i > Len(h.n[x].children) THEN h
    ELSE LET c == h.n[x].children[i]
         IN  MemberPositions(IF h.n[c].issec THEN SecSync(h, c) ELSE MemberPositions(h, c, 1),
                             x, i + 1)

\* StrategyBase.positions once the stale check is done: the frame is built on the first
\* read and kept
StrategyPositions(h, x) ==
    IF ~Ok(h) \/ h.n[x].positions_built THEN h
    ELSE MemberPositions([h EXCEPT !.n[x].positions_built = TRUE], x, 1)

\* val += c.value, on the state the read of c.value leaves: <<state, val>>
AddValue(h, c, val) == <<h, IF Ok(h) THEN RAdd(val, h.n[c].value) ELSE val>>

\* the first loop of StrategyBase.update, from the i-th child on; hv is <<state, val>>
UpdateChildren(hv, x, i, date) ==
    LET h == hv[1]
    IN  IF ~Ok(h) \/ i > Len(h.n[x].children) THEN hv
        ELSE LET c == h.n[x].children[i] IN
             IF h.n[c].issec /\ ~h.n[c].needupdate
             THEN UpdateChildren(hv, x, i + 1, date)
             ELSE UpdateChildren(AddValue(Sync(Update(h, c, date), c), c, hv[2]),
                                 x, i + 1, date)

\* a weight loop that divides whatever the total is
SetWeight_Divide(h, c, val) ==
    IF Ok(h) THEN [h EXCEPT !.n[c].weight = RDiv(h.n[c].value, val)] ELSE h

\* c._weight = c.value / val (0.0 on ZeroDivisionError), on the state the read of
\* c.value leaves
SetWeight(h, c, val) ==
    IF Ok(h)
    THEN [h EXCEPT !.n[c].weight = IF PyEq(val, Zero) THEN Zero ELSE RDiv(h.n[c].value, val)]
    ELSE h

\* the second loop of StrategyBase.update, from the i-th child on
WeighChildren(h, x, i, val) ==
    IF ~Ok(h) \/ i > Len(h.n[x].children) THEN h
    ELSE LET c == h.n[x].children[i] IN
         IF h.n[c].issec /\ ~h.n[c].needupdate
         THEN WeighChildren(h, x, i + 1, val)
         ELSE WeighChildren(SetWeight(Sync(h, c), c, val), x, i + 1, val)

\* a return on the previous value alone, the flows counting for the first funding only
ReturnBase_NoFlows(me) == IF me.last_value # Zero THEN me.last_value ELSE me.net_flows

\* the denominator of ret = self._value / (self._last_value + self._net_flows) - 1
ReturnBase(me) == RAdd(me.last_value, me.net_flows)

\* the commit of StrategyBase.update: value, values[date], the return, price, prices[date]
Commit(h, x, date, val) ==
    LET me  == h.n[x]
        den == ReturnBase(me)
        h1  == [h EXCEPT !.n[x].value = val, !.n[x].values[date] = val]
    IN  IF PyEq(den, Zero) /\ ~PyEq(val, Zero)
        THEN Raise(h1, "ZeroDivisionError")
        ELSE LET ret == IF PyEq(den, Zero) THEN Zero ELSE RSub(RDiv(val, den), R(1))
                 prc == RMul(me.last_price, RAdd(R(1), ret))
             IN  [h1 EXCEPT !.n[x].price = prc, !.n[x].prices[date] = prc]

\* an update that leaves the cash and fees buffers alone
BookCash_Skip(h, x) == h

\* self._cash[self.now] = self._capital; self._fees[self.now] = self._last_fee
BookCash(h, x) ==
    IF Ok(h)
    THEN [h EXCEPT !.n[x].cash[h.n[x].now] = h.n[x].capital,
                   !.n[x].fees[h.n[x].now] = h.n[x].last_fee]
    ELSE h

\* self._price = self._paper.price; self._prices[date] = self._price, on the state the
\* read of the twin's price leaves
PaperPrice(h, x, date) ==
    IF Ok(h)
    THEN [h EXCEPT !.n[x].price = h.n[h.n[x].paper].price,
                   !.n[x].prices[date] = h.n[h.n[x].paper].price]
    ELSE h

\* a paper step that updates the twin and never runs it
PaperStep_NoRun(h, x, date, newpt) ==
    IF Ok(h) /\ newpt /\ h.n[x].paper_trade
    THEN PaperPrice(SyncPrice(StrategyUpdate(h, h.n[x].paper, date), h.n[x].paper), x, date)
    ELSE h

\* the paper-trade step of StrategyBase.update: if newpt and self._paper_trade
PaperStep(h, x, date, newpt) ==
    IF Ok(h) /\ newpt /\ h.n[x].paper_trade
    THEN LET p == h.n[x].paper
         IN  PaperPrice(SyncPrice(StrategyUpdate(Run(StrategyUpdate(h, p, date), p),
                                                 p, date),
                                  p),
                        x, date)
    ELSE h

\* an update that accepts a negative total on the root
NegativeRoot_Never(h, x, val) == FALSE

\* if self.root == self: if val < 0: raise ValueError('negative root node value!')
NegativeRoot(h, x, val) == h.n[x].root = x /\ PyLt(val, Zero)

\* StrategyBase.update once the children are updated and val is their total (hv is
\* <<state, val>>): the root check, the commit, the weights, cash and fees, the paper step
Totalled(hv, x, date, newpt) ==
    LET h   == hv[1]
        val == hv[2]
    IN  IF ~Ok(h) THEN h
        ELSE IF NegativeRoot(h, x, val) THEN Raise(h, "NegativeRootValue")
        ELSE PaperStep(
                 BookCash(
                     WeighChildren(IF newpt \/ PyNe(h.n[x].value, val)
                                   THEN Commit(h, x, date, val) ELSE h,
                                   x, 1, val),
                     x),
                 x, date, newpt)

\* an update that does nothing
StrategyUpdate_Skip(h, x, date) == h

\* StrategyBase.update(date, data=None): resolve stale state, update helpers on date
\* change, update now, then the children
StrategyUpdate(h, x, date) ==
    IF ~Ok(h) THEN h
    ELSE LET me    == h.n[x]
             newpt == me.now = 0 \/ date # me.now
             roll  == me.now # 0 /\ date # me.now
         IN  Totalled(
                 UpdateChildren(
                     <<[h EXCEPT !.n[me.root].stale = FALSE,
                                 !.n[x].net_flows = IF roll THEN Zero ELSE @,
                                 !.n[x].last_price = IF roll THEN me.price ELSE @,
                                 !.n[x].last_value = IF roll THEN me.value ELSE @,
                                 !.n[x].last_fee = IF roll THEN Zero ELSE @,
                                 !.n[x].now = date],
                       me.capital>>,
                     x, 1, date),
                 x, date, newpt)

\* SecurityBase.commission(q, p): the parent's commission_fn with q as it is
Commission(h, x, q, p) == CommissionFn(h.n[h.n[x].parent].comm, q, p)

\* an outlay that leaves the fee out of the full outlay
Outlay_NoFee(h, x, q) ==
    LET pm  == RMul(h.n[x].price, h.n[x].multiplier)
    IN  <<RMul(q, pm), Commission(h, x, q, pm)>>

\* SecurityBase.outlay(q): <<full_outlay, fee>>
Outlay(h, x, q) ==
    LET pm  == RMul(h.n[x].price, h.n[x].multiplier)
        fee == Commission(h, x, q, pm)
    IN  <<RAdd(RMul(q, pm), fee), fee>>

\* a quantity that is not rounded to whole shares
Quantity_Exact(me, amount) ==
    IF PyEq(amount, RNeg(me.value)) THEN RNeg(me.position)
    ELSE RDiv(amount, RMul(me.price, me.multiplier))

\* the share quantity of SecurityBase.allocate
Quantity(me, amount) ==
    IF PyEq(amount, RNeg(me.value)) THEN RNeg(me.position)
    ELSE IF PyGt(me.position, Zero) \/ (PyEq(me.position, Zero) /\ PyGt(amount, Zero))
    THEN Floor(RDiv(amount, RMul(me.price, me.multiplier)))
    ELSE Ceil(RDiv(amount, RMul(me.price, me.multiplier)))

\* a test that lets a trade of no shares through
NothingToTrade_Never(q) == FALSE

\* if q == 0 or np.isnan(q): return
NothingToTrade(q) == PyEq(q, Zero) \/ IsNaN(q)

\* a trade that charges the parent the fee alone
Fill_Unpaid(h, x, q, update) ==
    IF NothingToTrade(q) THEN h
    ELSE LET h1 == [h EXCEPT !.n[x].needupdate = TRUE,
                             !.n[x].position = RAdd(@, q)]
             of == Outlay(h1, x, q)
         IN  Adjust(h1, h.n[x].parent, RNeg(of[2]), update, FALSE, of[2])

\* a trade that leaves the _needupdate flag as it finds it
Fill_NoFlag(h, x, q, update) ==
    IF NothingToTrade(q) THEN h
    ELSE LET h1 == [h EXCEPT !.n[x].position = RAdd(@, q)]
             of == Outlay(h1, x, q)
         IN  Adjust(h1, h.n[x].parent, RNeg(of[1]), update, FALSE, of[2])

\* SecurityBase.allocate with q determined: the position, the outlay, the parent's capital
Fill(h, x, q, update) ==
    IF NothingToTrade(q) THEN h
    ELSE LET h1 == [h EXCEPT !.n[x].needupdate = TRUE,
                             !.n[x].position = RAdd(@, q)]
             of == Outlay(h1, x, q)
         IN  Adjust(h1, h.n[x].parent, RNeg(of[1]), update, FALSE, of[2])

\* a price test that lets a NaN price through
BadPrice_ZeroOnly(me) == PyEq(me.price, Zero)

\* if self._price == 0 or np.isnan(self._price)
BadPrice(me) == PyEq(me.price, Zero) \/ IsNaN(me.price)

\* SecurityBase.allocate once the security is up to date: the checks and the quantity
Trade(h, x, amount, update) ==
    LET me == h.n[x]
    IN  IF PyEq(amount, Zero) THEN h
        ELSE IF me.parent = x THEN Raise(h, "OrphanedSecurity")
        ELSE IF BadPrice(me) THEN Raise(h, "InvalidPrice")
        ELSE Fill(h, x, Quantity(me, amount), update)

\* SecurityBase.allocate(amount, update)
SecurityAllocate(h, x, amount, update) ==
    IF ~Ok(h) THEN h
    ELSE LET par == h.n[x].parent
         IN  Trade(IF h.n[x].needupdate \/ h.n[x].now # h.n[par].now
                   THEN SecurityUpdate(h, x, h.n[par].now) ELSE h,
                   x, amount, update)

\* c.allocate(amount, update=update) on a child of either kind
Allocate(h, c, amount, update) ==
    IF h.n[c].issec THEN SecurityAllocate(h, c, amount, update)
    ELSE StrategyAllocate(h, c, amount, None, update)

\* c = SecurityBase(child); c.setup(self._universe); c.update(self.now); self._add_child(c)
CreateChild(h, x, name) ==
    LET c == NewId(x, name)
    IN  AddChild(SecurityUpdate(SecuritySetup(SecurityInit(h, c, name, 1),
                                              c, h.n[x].universe),
                                c, h.n[x].now),
                 x, c)

\* if child not in self.children: create it
EnsureChild(h, x, name) == IF IsChild(h, x, name) THEN h ELSE CreateChild(h, x, name)

\* self.children[child].allocate(amount)
AllocateTo(h, x, child, amount) == Allocate(h, Child(h, x, child), amount, TRUE)

\* [c.allocate(amount * c._weight, update=False) for c in self._childrenv], from the
\* i-th child on
AllocateChildren(h, x, i, amount) ==
    IF ~Ok(h) \/ i > Len(h.n[x].children) THEN h
    ELSE LET c == h.n[x].children[i]
         IN  AllocateChildren(Allocate(h, c, RMul(amount, h.n[c].weight), FALSE),
                              x, i + 1, amount)

\* an allocate that books the amount taken from the parent as a flow of the parent
StrategyAllocate_Flow(h, x, amount, child, update) ==
    IF ~Ok(h) THEN h
    ELSE IF child # None
    THEN AllocateTo(EnsureChild(h, x, child), x, child, amount)
    ELSE MarkStale(
             AllocateChildren(
                 Adjust(Adjust(h, h.n[x].parent, RNeg(amount), FALSE, TRUE, Zero),
                        x, amount, FALSE, TRUE, Zero),
                 x, 1, amount),
             x, update)

\* StrategyBase.allocate(amount, child=None, update=True)
StrategyAllocate(h, x, amount, child, update) ==
    IF ~Ok(h) THEN h
    ELSE IF child # None
    THEN AllocateTo(EnsureChild(h, x, child), x, child, amount)
    ELSE LET par == h.n[x].parent
         IN  MarkStale(
                 AllocateChildren(
                     Adjust(Adjust(h, par, RNeg(amount), FALSE, par = x, Zero),
                            x, amount, FALSE, TRUE, Zero),
                     x, 1, amount),
                 x, update)

\* c.allocate(-c.value), on the state the read of c.value leaves
AllocateValue(h, c) ==
    IF Ok(h) THEN Allocate(h, c, RNeg(h.n[c].value), TRUE) ELSE h

\* c.allocate(-c.value) if c.value != 0, on the state the read of the condition leaves
FlattenChild(h, c) ==
    IF Ok(h) /\ PyNe(h.n[c].value, Zero) THEN AllocateValue(Sync(h, c), c) ELSE h

\* [c.allocate(-c.value) for c in self._childrenv if c.value != 0], from the i-th child on
FlattenChildren(h, x, i) ==
    IF ~Ok(h) \/ i > Len(h.n[x].children) THEN h
    ELSE LET c == h.n[x].children[i]
         IN  FlattenChildren(FlattenChild(Sync(h, c), c), x, i + 1)

\* StrategyBase.flatten()
Flatten(h, x) == FlattenChildren(h, x, 1)

\* StrategyBase.close(child)
Close(h, x, child) ==
    IF ~Ok(h) THEN h
    ELSE IF ~IsChild(h, x, child) THEN Raise(h, "KeyError")
    ELSE LET c == Child(h, x, child)
         IN  AllocateValue(Sync(IF Len(h.n[c].children) # 0 THEN Flatten(h, c) ELSE h, c),
                           c)

\* a rebalance that allocates the target weight whatever the child weighs
AllocateDelta_Target(h, x, child, weight, base) ==
    IF Ok(h) THEN Allocate(h, Child(h, x, child), RMul(weight, base), TRUE) ELSE h

\* c = self.children[child]; delta = weight - c.weight; c.allocate(delta * base), on the
\* state the read of c.weight leaves
AllocateDelta(h, x, child, weight, base) ==
    IF Ok(h)
    THEN LET c == Child(h, x, child)
         IN  Allocate(h, c, RMul(RSub(weight, h.n[c].weight), base), TRUE)
    ELSE h

\* the read of self.children[child].weight
SyncChild(h, x, child) == IF Ok(h) THEN Sync(h, Child(h, x, child)) ELSE h

\* StrategyBase.rebalance from the creation of the child on; base is NaN (not given) if
\* it is the value that the read of self.value has left in h
RebalanceChild(h, x, weight, child, base) ==
    IF ~Ok(h) THEN h
    ELSE AllocateDelta(SyncChild(EnsureChild(h, x, child), x, child),
                       x, child, weight, IF IsNaN(base) THEN h.n[x].value ELSE base)

\* StrategyBase.rebalance(weight, child, base=np.nan, update=True)
Rebalance(h, x, weight, child, base) ==
    IF ~Ok(h) THEN h
    ELSE IF PyEq(weight, Zero)
    THEN IF IsChild(h, x, child) THEN Close(h, x, child) ELSE h
    ELSE RebalanceChild(IF IsNaN(base) THEN Sync(h, x) ELSE h, x, weight, child, base)

\* the weight the algo of a strategy rebalances its security to
AlgoWeight == <<1, 2>>

\* an algo given to Strategy(name, algos): target.rebalance(AlgoWeight, child); return True
AlgoCall(h, x) ==
    IF h.n[x].algo = None THEN h ELSE Rebalance(h, x, AlgoWeight, h.n[x].algo, NaN)

\* for c in self.children.values(): c.run(), from the i-th child on (a security's run
\* does nothing)
RunChildren(h, x, i) ==
    IF ~Ok(h) \/ i > Len(h.n[x].children) THEN h
    ELSE LET c == h.n[x].children[i]
         IN  RunChildren(IF h.n[c].issec THEN h ELSE Run(h, c), x, i + 1)

\* Strategy.run(): the stack, then the children
Run(h, x) ==
    IF ~Ok(h) THEN h ELSE RunChildren(AlgoCall(h, x), x, 1)

(***************************************************************************)
(* AlgoStack.  An algo is known by what it returns when it is called and   *)
(* by its run_always attribute, if it has one; a call of the stack gives   *)
(* the algos it invoked, in the order of the invocations (their places in  *)
(* the stack), and the result it returns.                                  *)
(***************************************************************************)
\* number of algos of a stack
MaxStack == 3

Algos ==
    { [ret |-> r, has |-> a[1], run_always |-> a[2]] :
          r \in BOOLEAN, a \in {<<FALSE, FALSE>>, <<TRUE, FALSE>>, <<TRUE, TRUE>>} }

\* AlgoStack(*algos)
Stacks == UNION {[1..n -> Algos] : n \in 0..MaxStack}

\* self.check_run_always = any(hasattr(x, 'run_always') for x in self.algos)
CheckRunAlways(algos) == \E i \in 1..Len(algos) : algos[i].has

\* a stack that does not stop at a False
NormalMode_RunAll(algos, i, log) ==
    [log |-> [n \in 1..Len(algos) |-> n], ret |-> \A n \in 1..Len(algos) : algos[n].ret]

\* the normal running mode, from the i-th algo on
RECURSIVE NormalMode(_, _, _)
NormalMode(algos, i, log) ==
    IF i > Len(algos) THEN [log |-> log, ret |-> TRUE]
    ELSE IF ~algos[i].ret THEN [log |-> Append(log, i), ret |-> FALSE]
    ELSE NormalMode(algos, i + 1, Append(log, i))

\* a stack that treats its run_always algos as any other algo
RunAlwaysMode_Normal(algos, i, res, log) == NormalMode(algos, i, log)

\* the mode of a stack with a run_always attribute, from the i-th algo on
RECURSIVE RunAlwaysMode(_, _, _, _)
RunAlwaysMode(algos, i, res, log) ==
    IF i > Len(algos) THEN [log |-> log, ret |-> res]
    ELSE IF res THEN RunAlwaysMode(algos, i + 1, algos[i].ret, Append(log, i))
    ELSE IF algos[i].has /\ algos[i].run_always
    THEN RunAlwaysMode(algos, i + 1, res, Append(log, i))
    ELSE RunAlwaysMode(algos, i + 1, res, log)

\* AlgoStack.__call__(target)
AlgoStackCall(algos) ==
    IF ~CheckRunAlways(algos) THEN NormalMode(algos, 1, <<>>)
    ELSE RunAlwaysMode(algos, 1, TRUE, <<>>)

(***************************************************************************)
(* The state machine.  The tree is first described by constructor calls,   *)
(* then set up once at its top, then driven: the driver advances the date  *)
(* (a root update with the next row of the panel), and calls the           *)
(* operations and the readers on the nodes of the tree.                    *)
(***************************************************************************)
VARIABLES nodes, universe, phase, calls, last

vars == <<nodes, universe, phase, calls, last>>

\* the rows the panel may hold: the prices of "a" and of "b" at a date
Rows == {<<R(2), R(2)>>, <<R(4), R(4)>>, <<R(0), R(0)>>, <<NaN, NaN>>}

\* multiplier of a security given to a constructor (an implicit security has 1)
Multiplier(x) == IF x = "b" THEN 2 ELSE 1

\* the arguments the driver passes
AdjustArgs ==
    { [amount |-> R(10), update |-> TRUE,  flow |-> TRUE,  fee |-> Zero],
      [amount |-> R(10), update |-> FALSE, flow |-> TRUE,  fee |-> Zero],
      [amount |-> R(-10), update |-> TRUE, flow |-> FALSE, fee |-> Zero],
      [amount |-> R(-20), update |-> TRUE, flow |-> FALSE, fee |-> Zero],
      [amount |-> Zero,  update |-> TRUE,  flow |-> TRUE,  fee |-> R(1)] }

Amounts == {R(7), R(-7)}

Weights == {Zero, <<1, 2>>}

H == [n |-> nodes, u |-> universe, err |-> NoErr]

Constructed(x) == nodes[x].kind # None

\* children[x] as the constructors may be given them: the unattached objects that belong
\* under x, in a fixed order
Unattached(x) == Constructed(x) /\ nodes[x].parent = x

RECURSIVE SeqOf(_, _)
SeqOf(order, S) ==
    IF order = <<>> THEN <<>>
    ELSE IF Head(order) \in S THEN <<Head(order)>> \o SeqOf(Tail(order), S)
    ELSE SeqOf(Tail(order), S)

KidsOrder == <<"a", "b", "s">>

NoCall == [op |-> "init", x |-> None, arg |-> None, err |-> NoErr, ret |-> Zero,
           fresh |-> FALSE]

Init ==
    /\ nodes = [o \in Objects |-> Blank]
    /\ universe = [x \in Securities |-> [d \in Dates |-> Zero]]
    /\ phase = "build"
    /\ calls = 0
    /\ last = NoCall

\* what every call records: the call, the exception it raised ("none" if it returned)
\* and the value a reader returned
Done(h, op, x, arg, ret) ==
    /\ nodes' = h.n
    /\ universe' = h.u
    /\ last' = [op |-> op, x |-> x, arg |-> arg, err |-> h.err, ret |-> ret, fresh |-> FALSE]

\* the tree is up to date: a root update at the current date would change nothing (a
\* tree under a top that is not set up cannot be updated)
Fresh(h) ==
    /\ h.n["q"].kind = None
    /\ \E h2 \in {StrategyUpdate(h, "r", h.n["r"].now)} : Ok(h2) /\ h2.n = h.n

\* SecurityBase(name, multiplier)
NewSecurity(x) ==
    /\ phase = "build" /\ ~Constructed(x) /\ ~Constructed(Home(x))
    /\ Done(SecurityInit(H, x, x, Multiplier(x)), "SecurityBase", x, None, Zero)
    /\ UNCHANGED <<phase, calls>>

\* Strategy(name, algos, children) and StrategyBase(name, children, parent)
NewStrategy(x, par, kids, algo) ==
    /\ phase = "build" /\ ~Constructed(x)
    /\ par \in ({None} \cup {Home(x)}) \ {x}
    /\ par # None => Constructed(par)
    /\ kids \subseteq {k \in Names : Home(k) = x /\ k # x /\ Unattached(k)}
    /\ algo \in IF x = "s" THEN {None, "b"} ELSE {None}
    /\ Done([StrategyInit(H, x, x, par, kids = {}, SeqOf(KidsOrder, kids))
                EXCEPT !.n[x].algo = algo],
            "Strategy", x, [parent |-> par, children |-> kids], Zero)
    /\ UNCHANGED <<phase, calls>>

\* the top of the tree is "r" and every constructed object hangs under it
InTree(x) == nodes[x].parent = "r" \/ nodes[nodes[x].parent].parent = "r"

Described == Constructed("r") /\ \A x \in Names : Constructed(x) => InTree(x)

\* root.setup(universe)
Setup ==
    /\ phase = "build" /\ Described
    /\ Done(StrategySetup(H, "r"), "setup", "r", None, Zero)
    /\ phase' = "run"
    /\ UNCHANGED calls

\* an exception is not caught: it ends the run
Running == phase = "run" /\ last.err = NoErr

\* q = Strategy('q', children=[r]), over a tree that is set up
NewTop ==
    /\ Running /\ ~Constructed("q")
    /\ Done(StrategyInit(H, "q", "q", None, FALSE, <<"r">>), "Strategy", "q",
            [parent |-> None, children |-> {"r"}], Zero)
    /\ UNCHANGED <<phase, calls>>

LiveStrategies == {x \in Strategies : Constructed(x)}

LiveNodes == {x \in Names : Constructed(x)}

\* the names a strategy may be asked to trade: the securities that belong under it
\* (present or not yet created) and its sub-strategy if it has one
ChildNames(x) == {k \in Names : Home(k) = x /\ k # x /\ (k \in Securities \/ Constructed(k))}

\* the driver advances the date: the next row of the panel, then root.update(date)
Tick ==
    /\ Running /\ nodes["r"].now < MaxDate
    /\ \E row \in Rows :
         LET d == nodes["r"].now + 1
             h == [H EXCEPT !.u["a"][d] = row[1], !.u["b"][d] = row[2]]
         IN  Done(StrategyUpdate(h, "r", d), "tick", "r", d, Zero)
    /\ UNCHANGED <<phase, calls>>

\* root.update(root.now)
CallUpdate ==
    /\ Running
    /\ Done(StrategyUpdate(H, "r", nodes["r"].now), "update", "r", nodes["r"].now, Zero)
    /\ calls' = calls + 1 /\ UNCHANGED phase

\* x.value
ReadValue(x) ==
    /\ Running /\ x \in LiveNodes
    /\ \E h \in {Sync(H, x)} : Done(h, "value", x, None, h.n[x].value)
    /\ calls' = calls + 1 /\ UNCHANGED phase

\* x.weight
ReadWeight(x) ==
    /\ Running /\ x \in LiveNodes
    /\ \E h \in {Sync(H, x)} : Done(h, "weight", x, None, h.n[x].weight)
    /\ calls' = calls + 1 /\ UNCHANGED phase

\* x.price
ReadPrice(x) ==
    /\ Running /\ x \in LiveNodes
    /\ \E h \in {IF nodes[x].issec THEN SecSyncPrice(H, x) ELSE SyncPrice(H, x)} :
          Done(h, "price", x, None, h.n[x].price)
    /\ calls' = calls + 1 /\ UNCHANGED phase

\* x.values, x.prices, x.positions
ReadSeries(x, f) ==
    /\ Running /\ x \in LiveNodes
    /\ \E h \in {IF nodes[x].issec
                 THEN IF f = "prices" THEN SecSyncPrice(H, x) ELSE SecSync(H, x)
                 ELSE IF f = "positions" THEN StrategyPositions(Sync(H, x), x)
                 ELSE SyncPrice(H, x)} :
          Done(h, f, x, None, Zero)
    /\ calls' = calls + 1 /\ UNCHANGED phase

\* x.adjust(amount, update, flow, fee)
CallAdjust(x, a) ==
    /\ Running /\ x \in LiveStrategies
    /\ \E h \in {Adjust(H, x, a.amount, a.update, a.flow, a.fee)} :
          /\ nodes' = h.n
          /\ universe' = h.u
          /\ last' = [op |-> "adjust", x |-> x, arg |-> a, err |-> h.err, ret |-> Zero,
                      fresh |-> Fresh(H)]
    /\ calls' = calls + 1 /\ UNCHANGED phase

\* x.allocate(amount, child, update) on a strategy
CallAllocate(x, amount, child, update) ==
    /\ Running /\ x \in LiveStrategies
    /\ child \in {None} \cup ChildNames(x)
    /\ child # None => update
    /\ Done(StrategyAllocate(H, x, amount, child, update), "allocate", x,
            [amount |-> amount, child |-> child, update |-> update], Zero)
    /\ calls' = calls + 1 /\ UNCHANGED phase

\* the negated value that the preceding call read on x, as an amount to allocate
ValueRead(x) == IF last.op = "value" /\ last.x = x THEN {RNeg(last.ret)} ELSE {}

\* x.allocate(amount, update) on a security
CallSecAllocate(x, amount, update) ==
    /\ Running /\ x \in LiveNodes /\ nodes[x].issec
    /\ Done(SecurityAllocate(H, x, amount, update), "sec_allocate", x,
            [amount |-> amount, update |-> update], Zero)
    /\ calls' = calls + 1 /\ UNCHANGED phase

\* AlgoStack(*algos)(target)
CallStack(algos) ==
    /\ Running
    /\ last' = [NoCall EXCEPT !.op = "stack", !.arg = algos, !.ret = AlgoStackCall(algos)]
    /\ UNCHANGED <<nodes, universe, phase, calls>>

\* x.rebalance(weight, child)
CallRebalance(x, weight, child) ==
    /\ Running /\ x \in LiveStrategies /\ child \in ChildNames(x)
    /\ Done(Rebalance(H, x, weight, child, NaN), "rebalance", x,
            [weight |-> weight, child |-> child], Zero)
    /\ calls' = calls + 1 /\ UNCHANGED phase

\* x.close(child)
CallClose(x, child) ==
    /\ Running /\ x \in LiveStrategies /\ child \in ChildNames(x)
    /\ IsChild(H, x, child)
    /\ Done(Close(H, x, child), "close", x, child, Zero)
    /\ calls' = calls + 1 /\ UNCHANGED phase

\* x.flatten()
CallFlatten(x) ==
    /\ Running /\ x \in LiveStrategies
    /\ Done(Flatten(H, x), "flatten", x, None, Zero)
    /\ calls' = calls + 1 /\ UNCHANGED phase

\* the commission functions the driver installs
CommFns == {"default", "zero", "per_share"}

\* StrategyBase.set_commissions(fn)
SetCommissions(h, x, fn) == [h EXCEPT !.n[x].comm = fn]

\* x.set_commissions(fn)
CallSetCommissions(x, fn) ==
    /\ Running /\ x \in LiveStrategies
    /\ Done(SetCommissions(H, x, fn), "set_commissions", x, fn, Zero)
    /\ UNCHANGED <<phase, calls>>

Build ==
    \/ \E x \in Securities : NewSecurity(x)
    \/ \E x \in Strategies, par \in Strategies \cup {None}, kids \in SUBSET Names,
          algo \in {None, "b"} : NewStrategy(x, par, kids, algo)
    \/ Setup

\* any call of the driver, as long as it has made fewer than max calls
Call(max) ==
    \/ calls < max /\ CallUpdate
    \/ calls < max /\ \E x \in Names : ReadValue(x)
    \/ calls < max /\ \E x \in Names : ReadWeight(x)
    \/ calls < max /\ \E x \in Names : ReadPrice(x)
    \/ calls < max /\ \E x \in Strategies, a \in AdjustArgs : CallAdjust(x, a)
    \/ calls < max /\ \E x \in Strategies, amount \in Amounts, child \in Names \cup {None},
                         update \in BOOLEAN : CallAllocate(x, amount, child, update)
    \/ calls < max /\ \E x \in Securities : \E amount \in Amounts \cup ValueRead(x),
                         update \in BOOLEAN : CallSecAllocate(x, amount, update)
    \/ calls < max /\ \E x \in Strategies, w \in Weights, child \in Names :
                         CallRebalance(x, w, child)
    \/ calls < max /\ \E x \in Strategies, child \in Names : CallClose(x, child)
    \/ calls < max /\ \E x \in Strategies : CallFlatten(x)

(***************************************************************************)
(* Trees as the constructors and setup leave them, for the specifications  *)
(* that start from a set-up tree.                                          *)
(***************************************************************************)
Empty ==
    [n |-> [o \in Objects |-> Blank],
     u |-> [x \in Securities |-> [d \in Dates |-> Zero]],
     err |-> NoErr]

\* a = SecurityBase('a'); r = Strategy('r', children=[a])
FlatTree ==
    LET h1 == SecurityInit(Empty, "a", "a", Multiplier("a"))
        h2 == StrategyInit(h1, "r", "r", None, FALSE, <<"a">>)
    IN  StrategySetup(h2, "r")

\* b = SecurityBase('b', 2); s = Strategy('s', [algo], children=[b]);
\* a = SecurityBase('a'); r = Strategy('r', children=[a, s])
BottomUpTree ==
    LET h1 == SecurityInit(Empty, "b", "b", Multiplier("b"))
        h2 == [StrategyInit(h1, "s", "s", None, FALSE, <<"b">>) EXCEPT !.n["s"].algo = "b"]
        h3 == SecurityInit(h2, "a", "a", Multiplier("a"))
        h4 == StrategyInit(h3, "r", "r", None, FALSE, <<"a", "s">>)
    IN  StrategySetup(h4, "r")

\* r = Strategy('r'); s = Strategy('s', [algo], parent=r); the securities are created
\* by allocate and rebalance
TopDownTree ==
    LET h1 == StrategyInit(Empty, "r", "r", None, TRUE, <<>>)
        h2 == [StrategyInit(h1, "s", "s", "r", TRUE, <<>>) EXCEPT !.n["s"].algo = "b"]
    IN  StrategySetup(h2, "r")

SetupCall == [NoCall EXCEPT !.op = "setup", !.x = "r"]

\* a tree after root.setup(universe)
InitTree(T) ==
    /\ nodes \in {t.n : t \in T}
    /\ universe = Empty.u
    /\ phase = "run"
    /\ calls = 0
    /\ last = SetupCall

\* the capital the driver starts a funded tree with
StartCapital == 10

\* a tree after root.setup(universe); root.adjust(StartCapital)
InitFunded(T) ==
    /\ nodes \in {Adjust(t, "r", R(StartCapital), TRUE, TRUE, Zero).n : t \in T}
    /\ universe = Empty.u
    /\ phase = "run"
    /\ calls = 0
    /\ last = [NoCall EXCEPT !.op = "adjust", !.x = "r", !.fresh = TRUE,
                             !.arg = [amount |-> R(StartCapital), update |-> TRUE,
                                      flow |-> TRUE, fee |-> Zero]]

(***************************************************************************)
(* Specifications                                                          *)
(***************************************************************************)
Trees == {FlatTree, BottomUpTree, TopDownTree}

\* the driver at work on a set-up tree: the dates go by, with calls in between
Next == Tick \/ Call(MaxCalls)

Spec == InitTree(Trees) /\ [][Next]_vars

\* the same, on a tree whose root was given its starting capital
SpecFunded == InitFunded(Trees) /\ [][Next]_vars

\* number of calls that follow setup in SpecBuild
MaxCallsBuild == 1

\* the description of a tree by constructor calls, its setup, and the calls that
\* create securities
NextBuild ==
    \/ Build
    \/ calls < MaxCallsBuild /\ Tick
    \/ calls < MaxCallsBuild /\ \E x \in Strategies, amount \in Amounts, child \in Securities :
                                   CallAllocate(x, amount, child, TRUE)
    \/ calls < MaxCallsBuild /\ \E x \in Strategies, w \in Weights, child \in Securities :
                                   CallRebalance(x, w, child)

SpecBuild == Init /\ [][NextBuild]_vars

\* number of calls in SpecTrade
MaxCallsTrade == 3

\* trading on a funded tree, every call asking for the update (update=True), and
\* reads of value in between
NextTrade ==
    \/ Tick
    \/ calls < MaxCallsTrade /\ \E x \in Names : ReadValue(x)
    \/ calls < MaxCallsTrade /\ \E x \in Strategies,
                                   a \in {b \in AdjustArgs : b.update /\ b.flow} :
                                   CallAdjust(x, a)
    \/ calls < MaxCallsTrade /\ \E x \in Strategies, amount \in Amounts,
                                   child \in Names \cup {None} :
                                   CallAllocate(x, amount, child, TRUE)
    \/ calls < MaxCallsTrade /\ \E x \in Securities : \E amount \in Amounts \cup ValueRead(x) :
                                   CallSecAllocate(x, amount, TRUE)
    \/ calls < MaxCallsTrade /\ \E x \in Strategies, child \in Names : CallClose(x, child)
    \/ calls < MaxCallsTrade /\ \E x \in Strategies : CallFlatten(x)

SpecTrade == InitFunded(Trees) /\ [][NextTrade]_vars

\* number of calls in SpecFlow
MaxCallsFlow == 3

\* capital flows, fees and trades of "a" on a funded tree, with root updates in between
NextFlow ==
    \/ Tick
    \/ calls < MaxCallsFlow /\ CallUpdate
    \/ calls < MaxCallsFlow /\ \E x \in Strategies, a \in AdjustArgs : CallAdjust(x, a)
    \/ calls < MaxCallsFlow /\ \E amount \in Amounts : CallSecAllocate("a", amount, TRUE)

SpecFlow == InitFunded({FlatTree, TopDownTree}) /\ [][NextFlow]_vars

\* a round trip on a security x that holds nothing: x.allocate(amount), then
\* v = x.value, then x.allocate(-v), at any date; calls counts the steps taken
NextRoundTrip ==
    \/ calls = 0 /\ Tick
    \/ /\ calls = 0 /\ nodes["r"].now > 0
       /\ \E x \in Securities, amount \in Amounts :
            nodes[x].position = Zero /\ CallSecAllocate(x, amount, TRUE)
    \/ calls = 1 /\ ReadValue(last.x)
    \/ calls = 2 /\ CallSecAllocate(last.x, RNeg(last.ret), TRUE)

SpecRoundTrip == InitFunded(Trees) /\ [][NextRoundTrip]_vars

\* a capital large enough for trades whose commission exceeds the minimum
LargeCapital == 2000

\* a tree after root.setup(universe); root.adjust(capital), capital one of C
InitFundedWith(T, C) ==
    /\ \E t \in T, c \in C :
         /\ nodes = Adjust(t, "r", R(c), TRUE, TRUE, Zero).n
         /\ last = [NoCall EXCEPT !.op = "adjust", !.x = "r", !.fresh = TRUE,
                                  !.arg = [amount |-> R(c), update |-> TRUE,
                                           flow |-> TRUE, fee |-> Zero]]
    /\ universe = Empty.u
    /\ phase = "run"
    /\ calls = 0

\* x.rebalance(w, c) twice in a row at one date, on a tree funded with a small or a
\* large capital, with the default commissions or with none; calls counts the
\* rebalance calls made
NextRebalance ==
    \/ calls = 0 /\ Tick
    \/ calls = 0 /\ \E x \in Strategies, fn \in CommFns : CallSetCommissions(x, fn)
    \/ calls = 0 /\ nodes["r"].now > 0
          /\ \E x \in Strategies, w \in Weights, child \in Names : CallRebalance(x, w, child)
    \/ calls = 1 /\ CallRebalance(last.x, last.arg.weight, last.arg.child)

SpecRebalance == InitFundedWith(Trees, {StartCapital, LargeCapital}) /\ [][NextRebalance]_vars

\* amounts given to a security: none, one that buys no whole share, odd ones, one
\* that the prices divide, a large one
AllocateAmounts == {Zero, R(1), R(7), R(-7), R(8), R(1000)}

MaxCallsAllocate == 2

\* allocations to securities and rebalances to nothing on a funded tree, under any
\* of the commission functions
NextAllocate ==
    \/ Tick
    \/ calls = 0 /\ \E x \in Strategies, fn \in CommFns : CallSetCommissions(x, fn)
    \/ calls < MaxCallsAllocate /\ \E x \in Securities, amount \in AllocateAmounts,
                                      update \in BOOLEAN : CallSecAllocate(x, amount, update)
    \/ calls < MaxCallsAllocate /\ \E x \in Strategies, child \in Names :
                                      CallRebalance(x, Zero, child)

SpecAllocate == InitFundedWith(Trees, {StartCapital, LargeCapital}) /\ [][NextAllocate]_vars

\* capital moved in and out of a strategy without an update, as a flow or not
ReturnArgs ==
    { [amount |-> R(n), update |-> FALSE, flow |-> f, fee |-> Zero] :
          n \in {10, -10}, f \in BOOLEAN }

MaxCallsReturn == 4

\* flows and other changes of capital on a tree that starts without capital, with
\* root updates in between
NextReturn ==
    \/ Tick
    \/ calls < MaxCallsReturn /\ CallUpdate
    \/ calls < MaxCallsReturn /\ \E x \in Strategies, a \in ReturnArgs : CallAdjust(x, a)

SpecReturn == InitTree({FlatTree, TopDownTree}) /\ [][NextReturn]_vars

\* number of calls in SpecRead
MaxCallsRead == 2

\* capital moved and securities traded, with or without a request for an update, and
\* the readers
NextRead ==
    \/ Tick
    \/ calls < MaxCallsRead /\ \E x \in Names : ReadValue(x)
    \/ calls < MaxCallsRead /\ \E x \in Names : ReadWeight(x)
    \/ calls < MaxCallsRead /\ \E x \in Names : ReadPrice(x)
    \/ calls < MaxCallsRead /\ \E x \in Names, f \in {"values", "prices", "positions"} :
                                  ReadSeries(x, f)
    \/ calls < MaxCallsRead /\ \E x \in Strategies, a \in AdjustArgs : CallAdjust(x, a)
    \/ calls < MaxCallsRead /\ \E x \in Securities, amount \in Amounts, update \in BOOLEAN :
                                  CallSecAllocate(x, amount, update)

SpecRead == InitFunded(Trees) /\ [][NextRead]_vars

\* number of calls in SpecStale
MaxCallsStale == 2

\* capital moved, allocated and traded, with or without a request for an update, on a
\* tree that may be given a new top; the dates go by and the values are read (which
\* runs the update of "r") as long as "r" is the top
NextStale ==
    \/ ~Constructed("q") /\ Tick
    \/ ~Constructed("q") /\ calls < MaxCallsStale /\ \E x \in Names : ReadValue(x)
    \/ NewTop
    \/ calls < MaxCallsStale /\ \E x \in Strategies, a \in AdjustArgs : CallAdjust(x, a)
    \/ calls < MaxCallsStale /\ \E x \in Strategies, amount \in Amounts, update \in BOOLEAN :
                                   CallAllocate(x, amount, None, update)
    \/ calls < MaxCallsStale /\ \E x \in Securities, amount \in Amounts, update \in BOOLEAN :
                                   CallSecAllocate(x, amount, update)

SpecStale == InitFunded(Trees) /\ [][NextStale]_vars

MaxCallsConserve == 2

\* trading within the dates on a funded tree, under any of the commission functions
NextConserve ==
    \/ Tick
    \/ calls = 0 /\ \E x \in Strategies, fn \in CommFns : CallSetCommissions(x, fn)
    \/ calls < MaxCallsConserve /\ \E x \in Strategies, amount \in Amounts,
                                      child \in Names \cup {None} :
                                      CallAllocate(x, amount, child, TRUE)
    \/ calls < MaxCallsConserve /\ \E x \in Securities, amount \in Amounts :
                                      CallSecAllocate(x, amount, TRUE)
    \/ calls < MaxCallsConserve /\ \E x \in Strategies, w \in Weights, child \in Names :
                                      CallRebalance(x, w, child)
    \/ calls < MaxCallsConserve /\ \E x \in Strategies, child \in Names : CallClose(x, child)
    \/ calls < MaxCallsConserve /\ \E x \in Strategies : CallFlatten(x)

SpecConserve == InitFunded(Trees) /\ [][NextConserve]_vars

\* calls of stacks of any algos
NextStack == \E algos \in Stacks : CallStack(algos)

SpecStack == InitTree({FlatTree}) /\ [][NextStack]_vars

(***************************************************************************)
(* Helpers of the properties                                               *)
(***************************************************************************)
RECURSIVE SumValues(_, _)
SumValues(nn, kids) ==
    IF kids = <<>> THEN Zero ELSE RAdd(nn[Head(kids)].value, SumValues(nn, Tail(kids)))

\* s.value == s.capital + the sum of the values of all of s's children
ValueIsSum(nn, x) == nn[x].value = RAdd(nn[x].capital, SumValues(nn, nn[x].children))

NoNaNChild(nn, x) == \A i \in 1..Len(nn[x].children) : ~IsNaN(nn[nn[x].children[i]].value)

\* the strategies of the tree and of the paper twin's tree
AllStrategies == {x \in Strategies \cup {Copy("s")} : nodes[x].kind = "strategy"}

\* the last call was a root update (by the driver) and it returned
UpdateReturned == last.op \in {"tick", "update"} /\ last.err = NoErr

\* the topmost node of x's parent chain
Top(nn, x) ==
    LET p == nn[x].parent
    IN  IF p = x THEN x ELSE IF nn[p].parent = p THEN p ELSE nn[nn[p].parent].parent

(***************************************************************************)
(* C1.  After a root update that returns, every strategy's value is its    *)
(* capital plus the sum of the values of all of its children, dormant      *)
(* securities included.  C1_ValueIsSum states this; it fails for a dormant *)
(* child whose cached value is NaN (position 0 times a NaN price).         *)
(* C1_ValueIsSumNoNaN: the same, for the strategies none of whose          *)
(* children has a NaN value.                                               *)
(***************************************************************************)
C1_ValueIsSum == UpdateReturned => \A x \in AllStrategies : ValueIsSum(nodes, x)

C1_ValueIsSumNoNaN ==
    UpdateReturned => \A x \in AllStrategies : NoNaNChild(nodes, x) => ValueIsSum(nodes, x)

\* an update has returned on a tree where a dormant security is held out of the loop
\* and another child carries value
C1_Witness ==
    /\ UpdateReturned
    /\ \E x \in AllStrategies :
         /\ NoNaNChild(nodes, x)
         /\ \E i \in 1..Len(nodes[x].children) :
              nodes[nodes[x].children[i]].issec /\ ~nodes[nodes[x].children[i]].needupdate
         /\ \E i \in 1..Len(nodes[x].children) : nodes[nodes[x].children[i]].value # Zero

(***************************************************************************)
(* C2.  Reads of value are never stale: a read of value that returns gives,*)
(* for a security, position * price * multiplier, and for a strategy, its  *)
(* capital plus the sum of its children's values.  The statement is        *)
(* checked under SpecTrade, where every call asks for the update           *)
(* (update=True), and on the panels without NaN; it still fails.           *)
(***************************************************************************)
NoNaNSeen == \A x \in Securities, d \in Dates : ~IsNaN(universe[x][d])

C2_ReadNeverStale ==
    (last.op = "value" /\ last.err = NoErr /\ NoNaNSeen)
    => /\ last.ret = nodes[last.x].value
       /\ IF nodes[last.x].issec
          THEN last.ret = RMul(RMul(nodes[last.x].position, nodes[last.x].price),
                               nodes[last.x].multiplier)
          ELSE ValueIsSum(nodes, last.x)

(***************************************************************************)
(* C3.  In every tree root.parent == root, root.root == root, and every    *)
(* other node's root is the topmost node of its parent chain.              *)
(***************************************************************************)
C3_RootIsTop ==
    \A x \in LiveNodes :
        /\ nodes[x].root = Top(nodes, x)
        /\ nodes[Top(nodes, x)].parent = Top(nodes, x)
        /\ nodes[Top(nodes, x)].root = Top(nodes, x)

(***************************************************************************)
(* C4.  The root's committed value is never negative: the value and the    *)
(* values buffer of every root (the paper twin is the root of its own      *)
(* tree) stay at or above zero, a root update that has failed with the     *)
(* fatal error has left them as they were, and the update of a strategy    *)
(* that is not a root never fails with that error.                         *)
(***************************************************************************)
Roots == {x \in Strategies \cup Copies : nodes[x].kind = "strategy" /\ nodes[x].root = x}

NonRoots == {x \in Strategies \cup Copies : nodes[x].kind = "strategy" /\ nodes[x].root # x}

\* capital + children values as they stand
Total(nn, x) == RAdd(nn[x].capital, SumValues(nn, nn[x].children))

Injected ==
    /\ last.op = "adjust" /\ last.x = "r" /\ last.err = NoErr
    /\ last.arg.flow /\ last.arg.amount # Zero /\ last.arg.fee = Zero
    /\ last.fresh /\ nodes["r"].now > 0

\* root.update(root.now), the next update
NextUpdate == StrategyUpdate(H, "r", nodes["r"].now)

\* before the injection the value stood at last_value + net_flows
NoReturnYet ==
    nodes["r"].value =
        RAdd(nodes["r"].last_value, RSub(nodes["r"].net_flows, last.arg.amount))

FeeBooked ==
    /\ last.op = "adjust" /\ last.err = NoErr
    /\ last.arg.amount = Zero /\ last.arg.flow /\ PyGt(last.arg.fee, Zero)
    /\ last.fresh /\ nodes["r"].now > 0
    /\ ~IsNaN(nodes[last.x].value) /\ nodes[last.x].value # Zero

C6_FeeLowersPrice ==
    (FeeBooked /\ Ok(NextUpdate))
    => NextUpdate.n[last.x].price =
           RMul(nodes[last.x].price,
                RSub(R(1), RDiv(last.arg.fee, nodes[last.x].value)))

C6_FeeOnlyRecorded ==
    (FeeBooked /\ Ok(NextUpdate))
    => LET me    == nodes[last.x]
           after == NextUpdate.n[last.x]
       IN  /\ after.price = me.price
           /\ after.value = me.value
           /\ after.capital = me.capital
           /\ after.fees[me.now] = RAdd(me.fees[me.now], last.arg.fee)

\* a fee booked on a strategy that holds a position or cash, whose next update returns
C6_Witness == FeeBooked /\ Ok(NextUpdate) /\ ~IsNaN(nodes[last.x].price)

(***************************************************************************)
(* C7.  Index price recurrence: once an update of tick t has returned,     *)
(* prices[t] * (values[t-1] + net_flows) == prices[t-1] * values[t]        *)
(* whenever values[t-1] + net_flows is non-zero (checked with both sides   *)
(* divided by that sum), the previous price being 100 and the previous     *)
(* value 0 at the first tick.  The statement is                            *)
(* checked on the strategies that keep their own price (no paper twin      *)
(* stands in for them) and on the panels without NaN; it still fails.      *)
(***************************************************************************)
Recurrence(me) ==
    LET t     == me.now
        prevP == IF t = 1 THEN R(InitialPrice) ELSE me.prices[t - 1]
        prevV == IF t = 1 THEN Zero ELSE me.values[t - 1]
        den   == RAdd(prevV, me.net_flows)
    IN  den # Zero => me.prices[t] = RMul(prevP, RDiv(me.values[t], den))

C7_PriceRecurrence ==
    (UpdateReturned /\ NoNaNSeen /\ nodes["r"].now > 0)
    => \A x \in AllStrategies :
          (~nodes[x].paper_trade /\ nodes[x].now > 0) => Recurrence(nodes[x])

(***************************************************************************)
(* C8.  Paper-trading isolation, within one run: after every update of a   *)
(* tick that returns, the price of a strategy that has a paper twin equals *)
(* the price of the twin.  Checked on the panels without NaN.              *)
(***************************************************************************)
C8_PaperPrice ==
    (UpdateReturned /\ NoNaNSeen /\ nodes["r"].now > 0)
    => \A x \in LiveStrategies :
          nodes[x].paper_trade => nodes[x].price = nodes[nodes[x].paper].price

(***************************************************************************)
(* C9.  After close(child) on a strategy followed by an update, the        *)
(* child's value is 0, the position of the child (a security) is 0, the    *)
(* positions of the securities below the child (a strategy) are 0, and the *)
(* child and its descendants are still children of their parents; for     *)
(* every price, a price fallen to 0 included.                              *)
(***************************************************************************)
Closed(nn, c) ==
    /\ nn[c].value = Zero
    /\ nn[c].issec => nn[c].position = Zero
    /\ \A i \in 1..Len(nn[c].children) : nn[nn[c].children[i]].position = Zero

Retained(before, after, c) ==
    /\ after[c].parent = before[c].parent
    /\ after[after[c].parent].children = before[before[c].parent].children
    /\ after[c].children = before[c].children

C9_CloseZeroes ==
    (last.op = "close" /\ last.err = NoErr /\ NoNaNSeen /\ Ok(NextUpdate))
    => LET c == Child(H, last.x, last.arg)
       IN  Closed(NextUpdate.n, c) /\ Retained(nodes, NextUpdate.n, c)

(***************************************************************************)
(* C10.  Round trip: on a security with position 0 and a valid non-zero    *)
(* price, allocate(x) followed in the same tick by allocate(-value), value *)
(* being read after the first call, restores position == 0 and             *)
(* value == 0.                                                             *)
(***************************************************************************)
C10_RoundTrip ==
    (/\ calls = 3 /\ last.op = "sec_allocate" /\ last.err = NoErr
     /\ ~IsNaN(nodes[last.x].price) /\ nodes[last.x].price # Zero)
    => /\ nodes[last.x].position = Zero
       /\ Sync(H, last.x).n[last.x].value = Zero

(***************************************************************************)
(* C11.  Rebalance idempotence: the second of two calls rebalance(w, c) in *)
(* a row at one date trades at most one share of every security, so the    *)
(* child's weight moves by the rounding to whole shares only.              *)
(* C11_RebalanceIdempotent states this; it fails when the commission of    *)
(* the first call, which lowers the value the second call takes as its     *)
(* base, is worth more than a share.  C11_IdempotentNoCommission: the      *)
(* same, when no strategy of the tree charges a commission.                *)
(***************************************************************************)
SecondRebalance == calls = 1 /\ calls' = 2 /\ last'.err = NoErr

AtMostOneShare ==
    \A s \in Securities :
        ~PyGt(RAbs(RSub(nodes'[s].position, nodes[s].position)), R(1))

NoCommission == \A x \in LiveStrategies : nodes[x].comm = "zero"

C11_RebalanceIdempotent == [][SecondRebalance => AtMostOneShare]_vars

C11_IdempotentNoCommission == [][(SecondRebalance /\ NoCommission) => AtMostOneShare]_vars

\* two calls rebalance(w, c), w # 0, have returned on a tree without commissions and
\* the security is held
C11_Witness ==
    /\ calls = 2 /\ last.op = "rebalance" /\ last.err = NoErr /\ NoCommission
    /\ last.arg.weight # Zero
    /\ \E s \in Securities : nodes[s].sym = last.arg.child /\ nodes[s].position # Zero

(***************************************************************************)
(* C12.  After every root update that returns, each child c of a strategy  *)
(* s with value # 0 has c.weight == c.value / s.value, and each child of a *)
(* strategy with value == 0 has weight 0.  C12_WeightIsShare states this;  *)
(* it fails for a security that holds nothing at a NaN price: its value is *)
(* NaN, it is flagged dormant and the weight loop leaves its weight at 0.  *)
(* C12_WeightIsShareNoNaN: the same, for the strategies and the children   *)
(* whose value is not NaN.                                                 *)
(***************************************************************************)
WeightIsShare(s, c) ==
    IF PyEq(s.value, Zero) THEN PyEq(c.weight, Zero)
    ELSE PyEq(c.weight, RDiv(c.value, s.value))

C12_WeightIsShare ==
    UpdateReturned
    => \A x \in AllStrategies : \A i \in 1..Len(nodes[x].children) :
          WeightIsShare(nodes[x], nodes[nodes[x].children[i]])

C12_WeightIsShareNoNaN ==
    UpdateReturned
    => \A x \in AllStrategies : \A i \in 1..Len(nodes[x].children) :
          (~IsNaN(nodes[x].value) /\ ~IsNaN(nodes[nodes[x].children[i]].value))
          => WeightIsShare(nodes[x], nodes[nodes[x].children[i]])

\* an update has returned on a tree where a strategy with a value holds a security,
\* and a strategy without value has a child
C12_Witness ==
    /\ UpdateReturned
    /\ \E x \in AllStrategies :
         /\ ~PyEq(nodes[x].value, Zero) /\ ~IsNaN(nodes[x].value)
         /\ \E i \in 1..Len(nodes[x].children) :
              /\ ~IsNaN(nodes[nodes[x].children[i]].value)
              /\ ~PyEq(nodes[nodes[x].children[i]].weight, Zero)
    /\ \E x \in AllStrategies : PyEq(nodes[x].value, Zero) /\ nodes[x].children # <<>>

(***************************************************************************)
(* The security-level allocations: a step x.allocate(amount) of a          *)
(* security, the security as the call sees it once it has brought itself   *)
(* to its parent's date, and the shares the call traded.                   *)
(***************************************************************************)
SecAllocateStep == calls' = calls + 1 /\ last'.op = "sec_allocate"

Caller == last'.x

Seen(x) ==
    IF nodes[x].needupdate \/ nodes[x].now # nodes[nodes[x].parent].now
    THEN SecurityUpdate(H, x, nodes[nodes[x].parent].now).n[x]
    ELSE nodes[x]

ValidPrice(me) == ~PyEq(me.price, Zero) /\ ~IsNaN(me.price)

Traded(x) == RSub(nodes'[x].position, nodes[x].position)

Whole(a) == a[2] = 1

\* an amount of money other than none: a number, not zero
Money(amount) == ~IsNaN(amount) /\ ~PyEq(amount, Zero)

(***************************************************************************)
(* C13.  Security.allocate(amount), amount # 0, at a valid price changes   *)
(* the position by exactly q, where q = -position if amount == -value,     *)
(* q = floor(amount / (price * multiplier)) if position > 0 or position == *)
(* 0 and amount > 0, and q = ceil(amount / (price * multiplier))           *)
(* otherwise; and every position is a whole number after every step.       *)
(***************************************************************************)
RuleQuantity(me, amount) ==
    IF PyEq(amount, RNeg(me.value)) THEN RNeg(me.position)
    ELSE IF PyGt(me.position, Zero) \/ (PyEq(me.position, Zero) /\ PyGt(amount, Zero))
    THEN Floor(RDiv(amount, RMul(me.price, me.multiplier)))
    ELSE Ceil(RDiv(amount, RMul(me.price, me.multiplier)))

C13_QuantityRule ==
    [][/\ (SecAllocateStep /\ Money(last'.arg.amount) /\ ValidPrice(Seen(Caller)))
           => /\ last'.err = NoErr
              /\ PyEq(Traded(Caller), RuleQuantity(Seen(Caller), last'.arg.amount))
       /\ \A s \in Securities : Whole(nodes'[s].position)]_vars

\* a security that was long has sold for an amount its price does not divide, and
\* the rounding went down, to a position of zero
C13_Witness ==
    /\ calls = 2 /\ last.op = "sec_allocate" /\ last.err = NoErr
    /\ last.arg.amount = R(-7)
    /\ nodes[last.x].position = Zero /\ nodes[last.x].price = R(2)

(***************************************************************************)
(* C14.  A Security.allocate that trades q # 0 shares at price p and       *)
(* multiplier m lowers the parent's capital by exactly q*p*m + fee, raises *)
(* the parent's last_fee by fee and leaves the parent's net_flows as they  *)
(* were; fee is the result of the parent's commission function, which by   *)
(* default is max(1, 0.01 * |q|).                                          *)
(***************************************************************************)
TradeStep == SecAllocateStep /\ last'.err = NoErr /\ ~PyEq(Traded(Caller), Zero)

FeeDue(fn, q, p) ==
    IF fn = "default" THEN PyMax(R(1), RMul(<<1, 100>>, RAbs(q))) ELSE CommissionFn(fn, q, p)

Booked(par, gross, fee) ==
    /\ PyEq(nodes'[par].capital, RSub(nodes[par].capital, RAdd(gross, fee)))
    /\ PyEq(nodes'[par].last_fee, RAdd(nodes[par].last_fee, fee))
    /\ PyEq(nodes'[par].net_flows, nodes[par].net_flows)

BookedAt(par, q, pm) == Booked(par, RMul(q, pm), FeeDue(nodes[par].comm, q, pm))

BookedBy(x, me) == BookedAt(nodes[x].parent, Traded(x), RMul(me.price, me.multiplier))

FeeCharged(par) == RSub(nodes'[par].last_fee, nodes[par].last_fee)

Unsigned(par, q, pm) == PyEq(FeeCharged(par), CommissionFn(nodes[par].comm, RAbs(q), pm))

UnsignedBy(x, me) == Unsigned(nodes[x].parent, Traded(x), RMul(me.price, me.multiplier))

C15_UnsignedQuantity == [][TradeStep => UnsignedBy(Caller, Seen(Caller))]_vars

(***************************************************************************)
(* C16.  Security.allocate(amount) with amount > 0 on a security whose     *)
(* position is >= 0 takes no more than amount from the parent's capital.   *)
(***************************************************************************)
LongAddition ==
    /\ SecAllocateStep /\ last'.err = NoErr
    /\ PyGt(last'.arg.amount, Zero) /\ ~PyLt(nodes[Caller].position, Zero)

CashTaken(par) == RSub(nodes[par].capital, nodes'[par].capital)

C16_NeverOverspend ==
    [][LongAddition => ~PyGt(CashTaken(nodes[Caller].parent), last'.arg.amount)]_vars

(***************************************************************************)
(* C17.  Security.allocate(amount), amount # 0, on a security whose price  *)
(* at the date of the call is 0 or NaN fails with an error and leaves the  *)
(* security's position, the parent's capital, last_fee and net_flows and   *)
(* the stale flag of the root as they were.                                *)
(***************************************************************************)
SameBooks(x) ==
    /\ nodes'[x].capital = nodes[x].capital
    /\ nodes'[x].last_fee = nodes[x].last_fee
    /\ nodes'[x].net_flows = nodes[x].net_flows

SameStale == \A x \in DOMAIN nodes : nodes'[x].stale = nodes[x].stale

C17_InvalidPrice ==
    [][(SecAllocateStep /\ Money(last'.arg.amount) /\ ~ValidPrice(Seen(Caller)))
       => /\ last'.err # NoErr
          /\ nodes'[Caller].position = nodes[Caller].position
          /\ SameBooks(nodes[Caller].parent)
          /\ SameStale]_vars

\* an allocation to a security that is held has failed at a price of NaN
C17_Witness ==
    /\ last.op = "sec_allocate" /\ last.err = "InvalidPrice"
    /\ nodes[last.x].position # Zero /\ IsNaN(nodes[last.x].price)

(***************************************************************************)
(* C19.  Security.allocate with amount == 0 or with an amount that rounds  *)
(* to zero shares, and rebalance(0, child) for a name that is not in       *)
(* children, raise no error and leave every position, every capital,       *)
(* last_fee and net_flows, every children mapping and every stale flag as  *)
(* they were.                                                              *)
(***************************************************************************)
NoShares(me, amount) ==
    \/ PyEq(amount, Zero)
    \/ ~IsNaN(amount) /\ ValidPrice(me) /\ PyEq(RuleQuantity(me, amount), Zero)

RebalanceToNothing ==
    /\ calls' = calls + 1 /\ last'.op = "rebalance"
    /\ PyEq(last'.arg.weight, Zero) /\ ~IsChild(H, Caller, last'.arg.child)

NothingDone ==
    /\ last'.err = NoErr
    /\ SameStale
    /\ \A x \in DOMAIN nodes :
         /\ nodes'[x].position = nodes[x].position
         /\ nodes'[x].children = nodes[x].children
         /\ SameBooks(x)

C19_SilentNoOps ==
    [][(\/ SecAllocateStep /\ NoShares(Seen(Caller), last'.arg.amount)
        \/ RebalanceToNothing) => NothingDone]_vars

\* an amount too small for a share has been allocated to a security that is held
C19_Witness ==
    /\ calls = 2 /\ last.op = "sec_allocate" /\ last.err = NoErr
    /\ last.arg.amount = R(1) /\ nodes[last.x].position # Zero

\* rebalance(0, child) has returned for a name that is not a child
C19_WitnessRebalance ==
    /\ last.op = "rebalance" /\ last.err = NoErr /\ ~IsChild(H, last.x, last.arg.child)

(***************************************************************************)
(* C18.  A strategy update fails with a division by zero exactly when the  *)
(* new total value is not zero while last_value + net_flows is zero; when  *)
(* both are zero the update returns with the price equal to last_price;    *)
(* in every other case there is no division error.  Stated on the state a  *)
(* root update leaves: a strategy's value is the new total, whether the    *)
(* update returned or raised in the division.  The price is compared on    *)
(* the strategies that compute it themselves: one that paper trades takes  *)
(* the price of its twin.                                                  *)
(***************************************************************************)
ZeroBase(me) == PyEq(RAdd(me.last_value, me.net_flows), Zero)

Undivisible(me) == ZeroBase(me) /\ ~PyEq(me.value, Zero)

UpdateDivided == last.op \in {"tick", "update"} /\ last.err \in {NoErr, "ZeroDivisionError"}

C18_DivisionByZero ==
    UpdateDivided
    => /\ (last.err = "ZeroDivisionError") <=> (\E x \in LiveStrategies : Undivisible(nodes[x]))
       /\ last.err = NoErr
            => \A x \in LiveStrategies :
                  (ZeroBase(nodes[x]) /\ PyEq(nodes[x].value, Zero) /\ ~nodes[x].paper_trade)
                  => PyEq(nodes[x].price, nodes[x].last_price)

(***************************************************************************)
(* C20.  A stack none of whose algos has a run_always attribute invokes    *)
(* its algos in stack order, each at most once, invokes none after the     *)
(* first that returns False, and returns False if an algo returned False   *)
(* and True otherwise.                                                     *)
(***************************************************************************)
NormalCall == last.op = "stack" /\ \A i \in 1..Len(last.arg) : ~last.arg[i].has

InStackOrder(log) == \A n \in 1..Len(log) : log[n] = n

StopsAtFalse(algos, log) == \A n \in 1..Len(log) : ~algos[log[n]].ret => n = Len(log)

SomeFalse(algos, log) == \E n \in 1..Len(log) : ~algos[log[n]].ret

AllInvoked(algos, log) == Len(log) = Len(algos)

C20_NormalMode ==
    NormalCall
    => /\ Len(last.ret.log) <= Len(last.arg)
       /\ InStackOrder(last.ret.log)
       /\ StopsAtFalse(last.arg, last.ret.log)
       /\ last.ret.ret = ~SomeFalse(last.arg, last.ret.log)
       /\ last.ret.ret => AllInvoked(last.arg, last.ret.log)

\* a stack of three plain algos whose second returns False has been called
C20_Witness ==
    /\ NormalCall /\ Len(last.arg) = 3
    /\ last.arg[1].ret /\ ~last.arg[2].ret /\ last.arg[3].ret
    /\ last.ret.log = <<1, 2>> /\ ~last.ret.ret

(***************************************************************************)
(* C21.  A stack one of whose algos has a run_always attribute invokes     *)
(* every algo whose run_always is true exactly once, whatever the algos    *)
(* before it returned; after the first False it invokes no other algos,    *)
(* and what the run_always algos return then is discarded; it returns      *)
(* False if an algo returned False, and True otherwise.                    *)
(***************************************************************************)
ExtendedCall == last.op = "stack" /\ \E i \in 1..Len(last.arg) : last.arg[i].has

Invoked(log, i) == \E n \in 1..Len(log) : log[n] = i

AtMostOnce(log) == \A m, n \in 1..Len(log) : m < n => log[m] < log[n]

RunsAlways(algo) == algo.has /\ algo.run_always

\* the places of the stack up to the first algo that returns False
UpToFalse(algos) == {i \in 1..Len(algos) : \A j \in 1..(i - 1) : algos[j].ret}

ExtendedMode(algos, out) ==
    /\ AtMostOnce(out.log)
    /\ \A i \in 1..Len(algos) :
          Invoked(out.log, i) <=> (i \in UpToFalse(algos) \/ RunsAlways(algos[i]))
    /\ out.ret = \A i \in 1..Len(algos) : algos[i].ret \/ i \notin UpToFalse(algos)

ReadReturned ==
    /\ last.op \in {"value", "weight", "price", "values", "prices", "positions"}
    /\ last.err = NoErr

RootStale(x) == nodes[nodes[x].root].stale

Returned == calls' = calls + 1 /\ last'.err = NoErr

Marking ==
    \/ last'.op = "adjust" /\ last'.arg.update
    \/ last'.op = "sec_allocate" /\ last'.arg.update /\ ~PyEq(Traded(Caller), Zero)
    \/ last'.op = "allocate" /\ last'.arg.child = None /\ last'.arg.update

Quiet ==
    \/ last'.op = "adjust" /\ ~last'.arg.update
    \/ last'.op = "allocate" /\ last'.arg.child = None /\ ~last'.arg.update

C23_MutationsMarkStale ==
    [][/\ (Returned /\ Marking) => nodes'[Top(nodes', Caller)].stale
       /\ (Returned /\ Quiet) => SameStale]_vars

(***************************************************************************)
(* C24.  On a strategy update that is the first ever (now == 0) or has     *)
(* date # now, the strategy sets last_price to its price and last_value to *)
(* its value as they were before the update and resets net_flows and       *)
(* last_fee to 0; on an update with date == now # 0 none of the four is    *)
(* changed; in both cases now == date afterwards.  C24_TickTransition      *)
(* states this for the strategies of the tree at a root update that        *)
(* returns; it fails at the first update, which changes none of the four.  *)
(* C24_DateChange: the same, with the first update among the updates that  *)
(* change none of them.                                                    *)
(***************************************************************************)
RootUpdate == last'.op \in {"tick", "update"} /\ last' # last /\ last'.err = NoErr

Rolled(x) ==
    /\ nodes'[x].last_price = nodes[x].price
    /\ nodes'[x].last_value = nodes[x].value
    /\ nodes'[x].net_flows = Zero
    /\ nodes'[x].last_fee = Zero

Kept(x) ==
    /\ nodes'[x].last_price = nodes[x].last_price
    /\ nodes'[x].last_value = nodes[x].last_value
    /\ nodes'[x].net_flows = nodes[x].net_flows
    /\ nodes'[x].last_fee = nodes[x].last_fee

C24_TickTransition ==
    [][RootUpdate
       => \A x \in LiveStrategies :
             /\ IF nodes[x].now = 0 \/ last'.arg # nodes[x].now THEN Rolled(x) ELSE Kept(x)
             /\ nodes'[x].now = last'.arg]_vars

C24_DateChange ==
    [][RootUpdate
       => \A x \in LiveStrategies :
             /\ IF nodes[x].now # 0 /\ last'.arg # nodes[x].now THEN Rolled(x) ELSE Kept(x)
             /\ nodes'[x].now = last'.arg]_vars

\* the second date has come for a strategy that had a value, a fee and flows at the
\* first
C24_Witness ==
    /\ last.op = "tick" /\ last.arg = 2 /\ last.err = NoErr
    /\ \E x \in LiveStrategies :
         /\ nodes[x].last_value = R(19) /\ nodes[x].net_flows = Zero
         /\ nodes[x].last_fee = Zero /\ nodes[x].fees[1] = R(1)

(***************************************************************************)
(* C25.  On a tick-transition update of a set-up non-root strategy its     *)
(* paper twin is updated to the date, then run, then updated to the date   *)
(* again, in that order, and on return the strategy's price and            *)
(* prices[date] equal the twin's price; on an update within the same tick  *)
(* the twin is neither updated nor run; a root strategy and a paper twin   *)
(* itself have no twin step.  The twin's tree is apart from the tree it    *)
(* was copied from, so the twin and its children after the update are what *)
(* update, run, update make of them as they were before, on the prices of  *)
(* the date.                                                               *)
(***************************************************************************)
NewPoint(x) == nodes[x].now = 0 \/ last'.arg # nodes[x].now

TwinTree(x) == {Copy(x)} \cup {Copy(c) : c \in {k \in Securities : Home(k) = x}}

UpdateRunUpdate(h, p, date) == StrategyUpdate(Run(StrategyUpdate(h, p, date), p), p, date)

TwinStepped(x, h) ==
    /\ Ok(h)
    /\ \A y \in TwinTree(x) : nodes'[y] = h.n[y]
    /\ nodes'[x].price = nodes'[Copy(x)].price
    /\ nodes'[x].prices[last'.arg] = nodes'[Copy(x)].price

TwinUntouched(x) == \A y \in TwinTree(x) : nodes'[y] = nodes[y]

HasTwin(x) == nodes[x].paper_trade /\ nodes[x].paper = Copy(x)

C25_PaperStep ==
    [][RootUpdate
       => \A x \in LiveStrategies :
             /\ (nodes[x].isSetup /\ nodes[x].parent # x) => HasTwin(x)
             /\ HasTwin(x)
                => IF NewPoint(x)
                   THEN TwinStepped(x, UpdateRunUpdate([n |-> nodes, u |-> universe', err |-> NoErr],
                                                       Copy(x), last'.arg))
                   ELSE TwinUntouched(x)
             /\ nodes[x].parent = x => ~nodes[x].paper_trade
             /\ ~nodes[Copy(x)].paper_trade]_vars

\* the twin has traded at the first date and the strategy shows the twin's price
C25_Witness ==
    /\ last.op = "tick" /\ last.arg = 1 /\ last.err = NoErr
    /\ nodes["s"].paper_trade /\ nodes["ps"].now = 1
    /\ nodes["pb"].position # Zero
    /\ nodes["s"].price = nodes["ps"].price /\ nodes["s"].price # R(InitialPrice)
    /\ nodes["s"].prices[1] = nodes["ps"].price

(***************************************************************************)
(* C26.  Booking of Strategy.allocate(amount) without a child.  On a       *)
(* strategy S with a parent P other than itself, P.capital decreases by    *)
(* amount with P.net_flows unchanged and S.net_flows increases by amount;  *)
(* on the root the two adjustments cancel, so root.net_flows is unchanged  *)
(* and root.capital changes only by the outlays of the trades cascaded to  *)
(* its children; the cascade gives each child amount * its cached weight   *)
(* without running any update in between.  C26_RootPaysTrades reads the    *)
(* outlays as those of all the trades the cascade makes in the tree, which *)
(* is the most that can be meant; it fails as soon as the root has a       *)
(* strategy among its children, whose share leaves the root's capital      *)
(* whole, whatever that child then spends of it.  C26_Booking counts the   *)
(* shares of the strategy children with the outlays of the securities.     *)
(***************************************************************************)
CascadeStep ==
    /\ calls' = calls + 1 /\ last'.op = "allocate" /\ last'.err = NoErr
    /\ last'.arg.child = None

\* q * p * m of the trade of a security, if it has traded
Gross(c) ==
    IF Traded(c) = Zero THEN Zero
    ELSE RMul(Traded(c), RMul(nodes'[c].price, nodes'[c].multiplier))

FeesOf(x) == RSub(nodes'[x].last_fee, nodes[x].last_fee)

Share(c, amount) == RMul(amount, nodes[c].weight)

RECURSIVE Passed(_, _, _)
\* what the children of x, from the i-th on, take of its capital: the securities
\* what they trade for, the strategies their share
Passed(x, i, amount) ==
    IF i > Len(nodes[x].children) THEN Zero
    ELSE LET c == nodes[x].children[i]
         IN  RAdd(IF nodes[c].issec THEN Gross(c) ELSE Share(c, amount),
                  Passed(x, i + 1, amount))

RECURSIVE TradedFor(_, _)
\* the trades of the securities under x, its strategy children's included
TradedFor(x, i) ==
    IF i > Len(nodes[x].children) THEN Zero
    ELSE LET c == nodes[x].children[i]
         IN  RAdd(IF nodes[c].issec THEN Gross(c) ELSE RAdd(TradedFor(c, 1), FeesOf(c)),
                  TradedFor(x, i + 1))

ExpectedTrade(me, share) ==
    IF PyEq(share, Zero) \/ IsNaN(RuleQuantity(me, share)) THEN Zero
    ELSE RuleQuantity(me, share)

RECURSIVE Cascaded(_, _)
\* x was allocated amount: its flows, and what its children got
Cascaded(x, amount) ==
    /\ nodes'[x].net_flows = RAdd(nodes[x].net_flows, IF nodes[x].parent = x THEN Zero ELSE amount)
    /\ \A i \in 1..Len(nodes[x].children) :
          LET c == nodes[x].children[i]
          IN  IF nodes[c].issec
              THEN Traded(c) = ExpectedTrade(Seen(c), Share(c, amount))
              ELSE Cascaded(c, Share(c, amount))

NoUpdateRun ==
    /\ \A k \in LiveNodes : nodes'[k].weight = nodes[k].weight
    /\ \A k \in LiveStrategies :
          /\ nodes'[k].now = nodes[k].now
          /\ nodes'[k].value = nodes[k].value /\ nodes'[k].price = nodes[k].price
          /\ nodes'[k].values = nodes[k].values /\ nodes'[k].prices = nodes[k].prices

ParentBooked(x, par, amount) ==
    par # x => /\ nodes'[par].capital = RSub(nodes[par].capital, amount)
               /\ nodes'[par].net_flows = nodes[par].net_flows

C26_Booking ==
    [][CascadeStep
       => /\ ParentBooked(Caller, nodes[Caller].parent, last'.arg.amount)
          /\ Cascaded(Caller, last'.arg.amount)
          /\ nodes[Caller].parent = Caller
             => nodes'[Caller].capital
                = RSub(nodes[Caller].capital,
                       RAdd(Passed(Caller, 1, last'.arg.amount), FeesOf(Caller)))
          /\ NoUpdateRun]_vars

C26_RootPaysTrades ==
    [][CascadeStep
       => /\ ParentBooked(Caller, nodes[Caller].parent, last'.arg.amount)
          /\ Cascaded(Caller, last'.arg.amount)
          /\ nodes[Caller].parent = Caller
             => nodes'[Caller].capital
                = RSub(nodes[Caller].capital, RAdd(TradedFor(Caller, 1), FeesOf(Caller)))
          /\ NoUpdateRun]_vars

\* the root has allocated to its children; the strategy among them got the share of
\* its weight, half of the amount
C26_Witness ==
    /\ last.op = "allocate" /\ last.err = NoErr /\ last.x = "r" /\ last.arg.child = None
    /\ nodes["r"].parent = "r" /\ nodes["s"].parent = "r"
    /\ nodes["s"].weight = <<1, 2>> /\ nodes["r"].net_flows = Zero
    /\ nodes["s"].net_flows = RMul(last.arg.amount, <<1, 2>>)

(***************************************************************************)
(* C27.  Recording: after every strategy update(date) that returns,        *)
(* values[date] == value, prices[date] == price, cash[date] == capital and *)
(* fees[date] == last_fee for that strategy, and the entries of these four *)
(* buffers for every other date are unchanged by the update.  Stated for   *)
(* the strategies of the tree at every root update that returns, and for   *)
(* the paper twins, which the update of their strategy updates.            *)
(***************************************************************************)
Recorded(me, date) ==
    /\ me.values[date] = me.value
    /\ me.prices[date] = me.price
    /\ me.cash[date] = me.capital
    /\ me.fees[date] = me.last_fee

OthersKept(old, new, date) ==
    \A d \in Keys \ {date} :
        /\ new.values[d] = old.values[d] /\ new.prices[d] = old.prices[d]
        /\ new.cash[d] = old.cash[d] /\ new.fees[d] = old.fees[d]

TwinStrategies == {Copy(x) : x \in {y \in LiveStrategies : nodes[y].paper_trade}}

C27_Recording ==
    [][RootUpdate
       => /\ \A x \in LiveStrategies \cup TwinStrategies :
                OthersKept(nodes[x], nodes'[x], last'.arg)
          /\ \A x \in LiveStrategies : Recorded(nodes'[x], last'.arg)
          /\ \A x \in TwinStrategies :
                nodes'[x].now = last'.arg => Recorded(nodes'[x], last'.arg)]_vars

\* a second update of the first date has recorded a fee and a capital that were booked
\* after the first
C27_Witness ==
    /\ last.op = "update" /\ last.arg = 1 /\ last.err = NoErr
    /\ \E x \in LiveStrategies :
         /\ nodes[x].fees[1] = R(1) /\ nodes[x].last_fee = R(1)
         /\ nodes[x].cash[1] = nodes[x].capital /\ nodes[x].values[1] = nodes[x].value
         /\ nodes[x].value # Zero /\ nodes[x].values[0] = Zero

(***************************************************************************)
(* C28.  Dormant securities are safe to skip: in every reachable state a   *)
(* security whose _needupdate flag is false has position 0, cached value 0 *)
(* and cached weight 0, and any allocate that changes its position sets    *)
(* the flag back to true before the next update, so leaving it out of the  *)
(* parent's value and weight loops never changes the parent's total (after *)
(* a root update that returns, the value of every strategy is its capital  *)
(* plus the cached values of all its children).  C28_DormantIsZero states  *)
(* this; it fails for a security that holds nothing at a NaN price, whose  *)
(* cached value is 0 * NaN.  C28_DormantIsEmpty: the cached value of a     *)
(* dormant security is 0, or NaN at a NaN price, and the total is right    *)
(* for the strategies that have no child with a NaN value.                 *)
(***************************************************************************)
LiveSecurities == {c \in Securities \cup {Copy(k) : k \in Securities} : nodes'[c].kind = "security"}

NothingHeld(me) == me.position = Zero /\ me.weight = Zero

\* allocate on a security or a strategy runs no update after its trades (close, flatten
\* and rebalance read values in between, which may)
Reflagged(c) ==
    (last'.op \in {"sec_allocate", "allocate"} /\ nodes'[c].position # nodes[c].position)
    => nodes'[c].needupdate

C28_DormantIsZero ==
    [][/\ \A c \in LiveSecurities :
             /\ ~nodes'[c].needupdate => NothingHeld(nodes'[c]) /\ nodes'[c].value = Zero
             /\ Reflagged(c)
       /\ RootUpdate => \A x \in AllStrategies : ValueIsSum(nodes', x)]_vars

C28_DormantIsEmpty ==
    [][/\ \A c \in LiveSecurities :
             /\ ~nodes'[c].needupdate
                => /\ NothingHeld(nodes'[c])
                   /\ \/ nodes'[c].value = Zero
                      \/ IsNaN(nodes'[c].value) /\ IsNaN(nodes'[c].price)
             /\ Reflagged(c)
       /\ RootUpdate
          => \A x \in AllStrategies : NoNaNChild(nodes', x) => ValueIsSum(nodes', x)]_vars

\* a security that the update of the first date found empty, and left dormant, has
\* traded since and is flagged again
C28_Witness ==
    /\ calls = 1 /\ last.op = "sec_allocate" /\ last.err = NoErr
    /\ nodes["r"].now = 1 /\ nodes[last.x].now = 1
    /\ nodes[last.x].position # Zero /\ nodes[last.x].needupdate
    /\ nodes[last.x].weight = Zero

(***************************************************************************)
(* C29.  Capital conservation: within one tick, for any sequence of        *)
(* allocate, rebalance, close and flatten calls on any nodes of a tree,    *)
(* the root's value after the next update equals its value before the      *)
(* sequence minus the sum of the commissions charged by the trades of the  *)
(* sequence (the total increase of last_fee over all strategies of the     *)
(* tree); with a zero commission function the root's value is unchanged.   *)
(* Stated call by call, which gives the sequences by addition: the value   *)
(* that an update of the root would give after the call is the value that  *)
(* it would give before the call, minus the fees that the call booked; and *)
(* before a call that follows an update of the root, that value is the     *)
(* root's value.  C29_Conservation states this; it fails after an update   *)
(* that met a security holding nothing at a NaN price, which left the root *)
(* a NaN value that the next update, skipping the security, replaces by a  *)
(* number.  C29_ConservationOfNumbers: the same for a root whose value is  *)
(* a number.                                                               *)
(***************************************************************************)
TradingCall ==
    /\ calls' = calls + 1 /\ last'.err = NoErr
    /\ last'.op \in {"allocate", "sec_allocate", "rebalance", "close", "flatten"}

\* root.update(root.now) on the state the call leaves
UpdateAfter == StrategyUpdate([n |-> nodes', u |-> universe', err |-> NoErr], "r", nodes'["r"].now)

RECURSIVE FeesBooked(_)
\* the total increase of last_fee over the strategies xs
FeesBooked(xs) ==
    IF xs = {} THEN Zero
    ELSE LET x == CHOOSE y \in xs : TRUE
         IN  RAdd(FeesOf(x), FeesBooked(xs \ {x}))

Conserved(before, after) ==
    (Ok(before) /\ Ok(after))
    => after.n["r"].value = RSub(before.n["r"].value, FeesBooked(LiveStrategies))

UpToDate(before) == Ok(before) /\ before.n["r"].value = nodes["r"].value

C29_Conservation ==
    [][TradingCall => /\ Conserved(NextUpdate, UpdateAfter)
                      /\ UpdateReturned => UpToDate(NextUpdate)]_vars

C29_ConservationOfNumbers ==
    [][TradingCall => /\ Conserved(NextUpdate, UpdateAfter)
                      /\ (UpdateReturned /\ ~IsNaN(nodes["r"].value))
                         => UpToDate(NextUpdate)]_vars

\* two trades under the default commissions have cost the root their two fees
C29_Witness ==
    /\ calls = 2 /\ last.op \in {"allocate", "rebalance", "close"} /\ last.err = NoErr
    /\ nodes["r"].now = 1 /\ nodes["r"].comm = "default"
    /\ nodes["r"].last_fee = R(2) /\ nodes["a"].position # Zero
    /\ Ok(NextUpdate) /\ NextUpdate.n["r"].value = R(StartCapital - 2)

\* a purchase and its close under a zero commission function have cost nothing
C29_WitnessZero ==
    /\ calls = 2 /\ last.op = "close" /\ last.err = NoErr
    /\ nodes["r"].now = 1 /\ nodes["r"].comm = "zero"
    /\ nodes["a"].position = Zero /\ nodes["a"].needupdate /\ nodes["a"].last_pos # Zero
    /\ Ok(NextUpdate) /\ NextUpdate.n["r"].value = R(StartCapital)

====
